---- MODULE Spec2Model ----
(***************************************************************************)
(* Model of the job entity of model/job/broker.go: the Job record, its     *)
(* state-changing methods (AckConsumed, Ack, Nack, Update, Create) over a  *)
(* tenant-scoped document store, and the blocking wait WaitUntilDone over  *)
(* the realtime hub.                                                       *)
(***************************************************************************)
EXTENDS Integers, Sequences, FiniteSets, TLC

\* ---------------------------------------------------------------- bounds
\* Number of method calls made on the job in one behaviour of Spec.
MaxCalls == 3
\* Number of events waiting in the subscriber's channel.
MaxChan == 1
\* Number of calls of the job's methods while WaitUntilDone is followed.
MaxHubCalls == 2
\* Number of job documents in the store that GetAllJobs lists.
MaxDocs == 7
\* The Limit of one page of GetAllJobs (10001 in the code), scaled down so
\* that a store of MaxDocs documents takes several pages.
PageLimit == 3
\* Number of writes through the job or its clone after Clone.
MaxWrites == 2
\* Length of the job lists given to the filters and to GetLastsJobs.
MaxJobs == 3
\* The cap of defaultMaxLimits (50 for each state in the code), scaled down
\* so that a list of MaxJobs jobs exceeds it.
StateLimit == 2
\* Number of files added to the download store, and how far its clock runs.
MaxAdds == 2
\* Number of job documents in the store that Get and GetQueuedJobs read.
MaxStored == 3
\* The Limit of GetQueuedJobs (200 in the code), scaled down so that a
\* store of MaxStored documents exceeds it.
FindLimit == 2
MaxClock == 3
\* Identities of the documents, and number of insertions and deletions,
\* of a store that changes under GetAllJobs.
MaxConcDocs == 5
MaxChanges == 3
\* Number of calls of PushJob on the broker.
MaxPush == 2

\* ------------------------------------------------------------- constants
Queued == "queued"
Running == "running"
Done == "done"
Errored == "errored"
States == {Queued, Running, Done, Errored}
Terminal == {Done, Errored}

\* The nil slice of a Message, Event or Payload.
NilBlob == "nil"
\* The empty JobID and JobRev.
NoId == 0
NoRev == 0
\* The zero time.Time.
ZeroTime == 0
\* The nil *JobOptions.
NilOptions == [MaxExecCount |-> 0, Timeout |-> 0]

\* Errors of the store.  ErrNotFound is the one couchdb.IsNotFoundError
\* recognises; the others stand for every other failure of a store request.
ErrNil == "nil"
ErrNotFound == "not_found"
ErrDefinedID == "defined_id"
ErrNoIdentity == "no_id_or_rev"
StoreErrors == {"conflict", "timeout"}

\* Tenants (prefixer.Prefixer): a domain and an optional prefix.
Tenants == { [Domain |-> "a.cozy", Prefix |-> ""],
             [Domain |-> "b.cozy", Prefix |-> "pb"] }

\* A DBPrefix that is the domain, whatever the prefix.
DBPrefix_Domain(j) == j.Domain

\* Job.DBPrefix and Job.DomainName.
DBPrefix(j) == IF j.Prefix # "" THEN j.Prefix ELSE j.Domain
DomainName(j) == j.Domain

Prefixes == { DBPrefix(t) : t \in Tenants }

\* The job requests the producers build.
Requests ==
  { [WorkerType |-> "konnector", TriggerID |-> "", Message |-> "m1",
     Event |-> NilBlob, Payload |-> NilBlob, Manual |-> TRUE,
     Debounced |-> FALSE, ForwardLogs |-> FALSE, Options |-> NilOptions],
    [WorkerType |-> "service", TriggerID |-> "t1", Message |-> "m2",
     Event |-> "e1", Payload |-> NilBlob, Manual |-> FALSE,
     Debounced |-> TRUE, ForwardLogs |-> TRUE,
     Options |-> [MaxExecCount |-> 2, Timeout |-> 5]],
    [WorkerType |-> "konnector", TriggerID |-> "t2", Message |-> NilBlob,
     Event |-> "e2", Payload |-> "p1", Manual |-> FALSE,
     Debounced |-> FALSE, ForwardLogs |-> FALSE, Options |-> NilOptions] }

\* The tenant and request of the calls of NewJob.
JobInputs ==
  { [db |-> CHOOSE t \in Tenants : t.Prefix = "",
     req |-> CHOOSE r \in Requests : r.Message = "m1"],
    [db |-> CHOOSE t \in Tenants : t.Prefix # "",
     req |-> CHOOSE r \in Requests : r.Message = "m2"],
    [db |-> CHOOSE t \in Tenants : t.Prefix = "",
     req |-> CHOOSE r \in Requests : r.Payload # NilBlob] }

\* The messages Nack is called with.
ErrorMessages == {"x", "y"}

VARIABLES
  job,      \* the in-memory Job
  store,    \* per tenant prefix: does the jobs collection exist, and its documents
  nextId,   \* the next identity the store assigns
  now,      \* the last reading of the clock
  hist,     \* the calls made on the job so far
  ret,      \* the error returned by the last call
  reqs,     \* the store requests the last call made, with their answers
  firstId,  \* the identity assigned when the job was first created
  wpc,      \* where the caller of WaitUntilDone is
  subOpen,  \* the subscriber of WaitUntilDone is open
  wchan,    \* sub.Channel: the events sent to the subscriber, not yet received
  wseen,    \* what WaitUntilDone observed last
  wret,     \* the error WaitUntilDone returned
  watchId,  \* the identity the subscriber watches
  lst,      \* GetAllJobs: the store it lists and the locals of its loop
  cl,       \* Clone: the heap, the job and its clone as references into it
  fn,       \* the last call of a package function: arguments and result
  dl,       \* the download store: its entries, its clock and the last lookup
  pool,     \* the broker: its jobs, the queue and the slots of each worker type
  reg,      \* RegisterCustomExternals: the main routine and its goroutines
  th        \* the thumbnails: the files of the filesystem and the open thumbs

jobVars == <<job, store, nextId, now, hist, ret, reqs, firstId>>
waitVars == <<wpc, subOpen, wchan, wseen, wret, watchId>>
\* The variables of the other operations, which these leave alone.
auxVars == <<lst, cl, fn, dl, pool, reg, th>>
\* What the actions on one of them leave alone.
notLst == <<job, store, nextId, now, hist, ret, reqs, firstId,
            wpc, subOpen, wchan, wseen, wret, watchId, cl, fn, dl, pool,
           reg, th>>
notCl == <<job, store, nextId, now, hist, ret, reqs, firstId,
           wpc, subOpen, wchan, wseen, wret, watchId, lst, fn, dl, pool,
           reg, th>>
notFn == <<job, store, nextId, now, hist, ret, reqs, firstId,
           wpc, subOpen, wchan, wseen, wret, watchId, lst, cl, dl, pool,
           reg, th>>
notPool == <<job, store, nextId, now, hist, ret, reqs, firstId,
             wpc, subOpen, wchan, wseen, wret, watchId, lst, cl, fn, dl,
           reg, th>>
notReg == <<job, store, nextId, now, hist, ret, reqs, firstId,
            wpc, subOpen, wchan, wseen, wret, watchId, lst, cl, fn, dl, pool,
            th>>
notTh == <<job, store, nextId, now, hist, ret, reqs, firstId,
           wpc, subOpen, wchan, wseen, wret, watchId, lst, cl, fn, dl, pool,
           reg>>
notDl == <<job, store, nextId, now, hist, ret, reqs, firstId,
           wpc, subOpen, wchan, wseen, wret, watchId, lst, cl, fn, pool,
           reg, th>>

\* ------------------------------------------------------------------ NewJob
\* A job built without the options of the request.
NewJob_NoOptions(db, req, t) ==
  [ JobID |-> NoId, JobRev |-> NoRev,
    Domain |-> DomainName(db), Prefix |-> DBPrefix(db),
    WorkerType |-> req.WorkerType, TriggerID |-> req.TriggerID,
    Manual |-> req.Manual, Message |-> req.Message,
    Debounced |-> req.Debounced, Event |-> req.Event,
    Payload |-> req.Payload, Options |-> NilOptions,
    ForwardLogs |-> req.ForwardLogs,
    State |-> Queued, QueuedAt |-> t,
    StartedAt |-> ZeroTime, FinishedAt |-> ZeroTime, Error |-> "" ]

NewJob(db, req, t) ==
  [ JobID |-> NoId, JobRev |-> NoRev,
    Domain |-> DomainName(db), Prefix |-> DBPrefix(db),
    WorkerType |-> req.WorkerType, TriggerID |-> req.TriggerID,
    Manual |-> req.Manual, Message |-> req.Message,
    Debounced |-> req.Debounced, Event |-> req.Event,
    Payload |-> req.Payload, Options |-> req.Options,
    ForwardLogs |-> req.ForwardLogs,
    State |-> Queued, QueuedAt |-> t,
    StartedAt |-> ZeroTime, FinishedAt |-> ZeroTime, Error |-> "" ]

\* time.Now(): the clock never goes back between two readings.
Now == {now, now + 1}

\* ------------------------------------------------------------------ store
EmptyDocs == [i \in {} |-> 0]

\* The document is missing: no collection, or no such document in it.
Missing(j) ==
  LET db == store[DBPrefix(j)] IN
  \/ ~db.exists
  \/ j.JobID \notin DOMAIN db.docs

NextRev(j) == j.JobRev + 1

\* couchdb.UpdateDoc(j, j): a document without identity or revision is
\* refused before any request; f is what the store answers when the document
\* is there ("ok" or one of StoreErrors).
UpdateDoc(j, f) ==
  LET p == DBPrefix(j)
      db == store[p]
  IN
  IF j.JobID = NoId \/ j.JobRev = NoRev
    THEN [err |-> ErrNoIdentity, doc |-> j, store |-> store]
  ELSE IF f \in StoreErrors THEN [err |-> f, doc |-> j, store |-> store]
  ELSE IF Missing(j) THEN [err |-> ErrNotFound, doc |-> j, store |-> store]
  ELSE IF db.docs[j.JobID].JobRev # j.JobRev
       THEN [err |-> "conflict", doc |-> j, store |-> store]
  ELSE LET d == [j EXCEPT !.JobRev = NextRev(j)] IN
       [err |-> ErrNil, doc |-> d,
        store |-> [store EXCEPT ![p].docs = (j.JobID :> d) @@ db.docs]]

\* couchdb.CreateDoc(j, j): the store assigns the identity; a missing
\* collection is created on the way.
CreateDoc(j, g) ==
  LET p == DBPrefix(j)
      db == store[p]
  IN
  IF j.JobID # NoId THEN [err |-> ErrDefinedID, doc |-> j, store |-> store]
  ELSE IF g \in StoreErrors THEN [err |-> g, doc |-> j, store |-> store]
  ELSE LET d == [j EXCEPT !.JobID = nextId, !.JobRev = 1] IN
       [err |-> ErrNil, doc |-> d,
        store |-> [store EXCEPT ![p] =
                    [exists |-> TRUE,
                     docs |-> (nextId :> d) @@
                              (IF db.exists THEN db.docs ELSE EmptyDocs)]]]

\* couchdb.GetDoc(db, consts.Jobs, id, &job): a is what the store answers
\* when the document is there ("ok" or one of StoreErrors).
GetDoc(db, id, a) ==
  LET d == store[DBPrefix(db)] IN
  IF a \in StoreErrors THEN [err |-> a, doc |-> [nil |-> TRUE]]
  ELSE IF d.exists /\ id \in DOMAIN d.docs
    THEN [err |-> ErrNil, doc |-> d.docs[id]]
  ELSE [err |-> ErrNotFound, doc |-> [nil |-> TRUE]]

\* The nil *Job.
NilJob == [nil |-> TRUE]
ErrNotFoundJob == "ErrNotFoundJob"

\* A Get that returns the store's not-found error as it is.
Get_RawNotFound(db, jobID, a) ==
  LET r == GetDoc(db, jobID, a) IN
  IF r.err # ErrNil THEN [job |-> NilJob, err |-> r.err]
  ELSE [job |-> r.doc, err |-> ErrNil]

\* Get: the job document jobID of the tenant db.
Get(db, jobID, a) ==
  LET r == GetDoc(db, jobID, a) IN
  IF r.err # ErrNil
    THEN IF r.err = ErrNotFound THEN [job |-> NilJob, err |-> ErrNotFoundJob]
         ELSE [job |-> NilJob, err |-> r.err]
  ELSE [job |-> r.doc, err |-> ErrNil]

\* ---------------------------------------------------------------- Unmarshal
ErrMessageNil == "ErrMessageNil"
ErrMessageUnmarshal == "ErrMessageUnmarshal"

\* The blobs of the requests that json.Unmarshal rejects for the handler's
\* target, and json.Unmarshal on a blob.
MalformedBlobs == {"m2", "e2"}
JSONUnmarshal(blob) ==
  IF blob = NilBlob \/ blob \in MalformedBlobs THEN "json" ELSE ErrNil

MessageUnmarshal(m) ==
  IF m = NilBlob THEN ErrMessageNil
  ELSE IF JSONUnmarshal(m) # ErrNil THEN ErrMessageUnmarshal
  ELSE ErrNil

\* An Unmarshal without the test for nil.
EventUnmarshal_NoNilTest(e) ==
  IF JSONUnmarshal(e) # ErrNil THEN ErrMessageUnmarshal ELSE ErrNil

EventUnmarshal(e) ==
  IF e = NilBlob THEN ErrMessageNil
  ELSE IF JSONUnmarshal(e) # ErrNil THEN ErrMessageUnmarshal
  ELSE ErrNil

PayloadUnmarshal(p) ==
  IF p = NilBlob THEN ErrMessageNil
  ELSE IF JSONUnmarshal(p) # ErrNil THEN ErrMessageUnmarshal
  ELSE ErrNil

\* One request to the store and the error it answered.
Req(kind, err) == [req |-> kind, err |-> err]

\* What the store requests of a call leave behind: r is the last request's
\* result, rs the requests made.
Stored(r, rs) ==
  /\ job' = r.doc
  /\ store' = r.store
  /\ ret' = r.err
  /\ reqs' = rs
  /\ IF r.err = ErrNil /\ r.doc.JobID = nextId
       THEN /\ nextId' = nextId + 1
            /\ firstId' = IF firstId = NoId THEN r.doc.JobID ELSE firstId
       ELSE UNCHANGED <<nextId, firstId>>

\* ------------------------------------------------------- Job's methods
\* Job.Create
JobCreate(j, g) ==
  LET c == CreateDoc(j, g) IN Stored(c, <<Req("create", c.err)>>)

\* Job.Update with slips: the job in memory is put back as it was when the
\* update fails; the re-created job starts over as Queued; the identity is
\* cleared whatever the error; the identity is not cleared before the
\* re-creation; a failed request is sent a second time.
JobUpdate_Rollback(j, f, g) ==
  LET r == UpdateDoc(j, f) IN
  IF r.err = ErrNotFound
    THEN LET c == CreateDoc([j EXCEPT !.JobID = NoId, !.JobRev = NoRev], g)
         IN Stored(c, <<Req("update", r.err), Req("create", c.err)>>)
    ELSE IF r.err # ErrNil
      THEN Stored([r EXCEPT !.doc = job], <<Req("update", r.err)>>)
      ELSE Stored(r, <<Req("update", r.err)>>)

JobUpdate_Requeue(j, f, g) ==
  LET r == UpdateDoc(j, f) IN
  IF r.err = ErrNotFound
    THEN LET c == CreateDoc([j EXCEPT !.JobID = NoId, !.JobRev = NoRev,
                                      !.State = Queued], g)
         IN Stored(c, <<Req("update", r.err), Req("create", c.err)>>)
    ELSE Stored(r, <<Req("update", r.err)>>)

JobUpdate_ClearAlways(j, f, g) ==
  LET r == UpdateDoc(j, f) IN
  IF r.err = ErrNotFound
    THEN LET c == CreateDoc([j EXCEPT !.JobID = NoId, !.JobRev = NoRev], g)
         IN Stored(c, <<Req("update", r.err), Req("create", c.err)>>)
    ELSE IF r.err # ErrNil
      THEN Stored([r EXCEPT !.doc.JobID = NoId, !.doc.JobRev = NoRev],
                  <<Req("update", r.err)>>)
      ELSE Stored(r, <<Req("update", r.err)>>)

JobUpdate_NoClear(j, f, g) ==
  LET r == UpdateDoc(j, f) IN
  IF r.err = ErrNotFound
    THEN LET c == CreateDoc(j, g)
         IN Stored(c, <<Req("update", r.err), Req("create", c.err)>>)
    ELSE Stored(r, <<Req("update", r.err)>>)

JobUpdate_Retry(j, f, g) ==
  LET r == UpdateDoc(j, f) IN
  IF r.err = ErrNotFound
    THEN LET c == CreateDoc([j EXCEPT !.JobID = NoId, !.JobRev = NoRev], g)
         IN Stored(c, <<Req("update", r.err), Req("create", c.err)>>)
    ELSE IF r.err # ErrNil
      THEN LET r2 == UpdateDoc(j, g)
           IN Stored(r2, <<Req("update", r.err), Req("update", r2.err)>>)
      ELSE Stored(r, <<Req("update", r.err)>>)

\* Job.Update
JobUpdate(j, f, g) ==
  LET r == UpdateDoc(j, f) IN
  IF r.err = ErrNotFound
    THEN LET c == CreateDoc([j EXCEPT !.JobID = NoId, !.JobRev = NoRev], g)
         IN Stored(c, <<Req("update", r.err), Req("create", c.err)>>)
    ELSE Stored(r, <<Req("update", r.err)>>)

\* The assignments of Job.AckConsumed, Job.Ack and Job.Nack.
AckConsumedFields(j, t) == [j EXCEPT !.StartedAt = t, !.State = Running]

\* Job.Ack with slips: FinishedAt is not set; the event is kept.
AckFields_NoFinishedAt(j, t) ==
  [j EXCEPT !.State = Done, !.Event = NilBlob, !.Payload = NilBlob]

\* Job.Ack that drops the message with the event and the payload.
AckFields_ClearMessage(j, t) ==
  [j EXCEPT !.FinishedAt = t, !.State = Done, !.Message = NilBlob,
            !.Event = NilBlob, !.Payload = NilBlob]

AckFields_KeepEvent(j, t) ==
  [j EXCEPT !.FinishedAt = t, !.State = Done, !.Payload = NilBlob]

AckFields(j, t) ==
  [j EXCEPT !.FinishedAt = t, !.State = Done,
            !.Event = NilBlob, !.Payload = NilBlob]

\* Job.Nack with slips: the state of Ack; the message is dropped; the
\* payload is kept.
NackFields_StateDone(j, t, errorMessage) ==
  [j EXCEPT !.FinishedAt = t, !.State = Done, !.Error = errorMessage,
            !.Event = NilBlob, !.Payload = NilBlob]

\* Job.Nack that sets the error and leaves the state.
NackFields_NoState(j, t, errorMessage) ==
  [j EXCEPT !.FinishedAt = t, !.Error = errorMessage,
            !.Event = NilBlob, !.Payload = NilBlob]

NackFields_NoError(j, t, errorMessage) ==
  [j EXCEPT !.FinishedAt = t, !.State = Errored,
            !.Event = NilBlob, !.Payload = NilBlob]

NackFields_KeepPayload(j, t, errorMessage) ==
  [j EXCEPT !.FinishedAt = t, !.State = Errored, !.Error = errorMessage,
            !.Event = NilBlob]

NackFields(j, t, errorMessage) ==
  [j EXCEPT !.FinishedAt = t, !.State = Errored, !.Error = errorMessage,
            !.Event = NilBlob, !.Payload = NilBlob]

Call(op, msg) == [op |-> op, msg |-> msg]

Answers == {"ok"} \cup StoreErrors

CreateCall ==
  /\ Len(hist) < MaxCalls
  /\ \E g \in Answers :
       /\ JobCreate(job, g)
  /\ hist' = Append(hist, Call("Create", ""))
  /\ UNCHANGED <<now, auxVars>>

Create == CreateCall /\ UNCHANGED waitVars

AckConsumedCall ==
  /\ Len(hist) < MaxCalls
  /\ \E t \in Now, f \in Answers, g \in Answers :
       /\ now' = t
       /\ JobUpdate(AckConsumedFields(job, t), f, g)
  /\ hist' = Append(hist, Call("AckConsumed", ""))
  /\ UNCHANGED auxVars

AckConsumed == AckConsumedCall /\ UNCHANGED waitVars

AckCall ==
  /\ Len(hist) < MaxCalls
  /\ \E t \in Now, f \in Answers, g \in Answers :
       /\ now' = t
       /\ JobUpdate(AckFields(job, t), f, g)
  /\ hist' = Append(hist, Call("Ack", ""))
  /\ UNCHANGED auxVars

Ack == AckCall /\ UNCHANGED waitVars

NackCall ==
  /\ Len(hist) < MaxCalls
  /\ \E t \in Now, f \in Answers, g \in Answers, m \in ErrorMessages :
       /\ now' = t
       /\ JobUpdate(NackFields(job, t, m), f, g)
       /\ hist' = Append(hist, Call("Nack", m))
  /\ UNCHANGED auxVars

Nack == NackCall /\ UNCHANGED waitVars

UpdateCall ==
  /\ Len(hist) < MaxCalls
  /\ \E f \in Answers, g \in Answers :
       /\ JobUpdate(job, f, g)
  /\ hist' = Append(hist, Call("Update", ""))
  /\ UNCHANGED <<now, auxVars>>

Update == UpdateCall /\ UNCHANGED waitVars

\* The tenant's job history is reset: the jobs collection is deleted.
DeleteDB ==
  /\ \E p \in Prefixes :
       /\ store[p].exists
       /\ store' = [store EXCEPT ![p] = [exists |-> FALSE, docs |-> EmptyDocs]]
  /\ UNCHANGED <<job, nextId, now, hist, ret, reqs, firstId>>
  /\ UNCHANGED <<waitVars, auxVars>>

\* ----------------------------------------------------------- WaitUntilDone
\* The documents an event of the hub can carry: a *couchdb.JSONDoc or a
\* *realtime.JSONDoc (a map M), a *Job, or a document of another type.
JSONShapes == {"couchdb.JSONDoc", "realtime.JSONDoc"}
\* M["state"]: a string, no entry, or a value that is not a string.
NoEntry == "<none>"
NotAString == "<number>"
MapStates == States \cup {"paused", "", NoEntry, NotAString}
JobStates == States \cup {"paused", ""}
Events ==
  [shape : JSONShapes, state : MapStates]
    \cup [shape : {"Job"}, state : JobStates]
    \cup [shape : {"other"}, state : {Done}]

\* stateStr, _ := doc.M["state"].(string)
StateStr(v) == IF v \in {NoEntry, NotAString} THEN "" ELSE v

\* The same without the Queued default for a document of another type.
EventState_NoDefault(e) ==
  IF e.shape \in JSONShapes THEN StateStr(e.state) ELSE e.state

\* The state WaitUntilDone reads from an event.
EventState(e) ==
  IF e.shape \in JSONShapes THEN StateStr(e.state)
  ELSE IF e.shape = "Job" THEN e.state
  ELSE Queued

\* The switch on the state: does the call return, and with which error.
ErrKonnectorFailed == "The konnector failed on account deletion"
Returns(state) == state \in {Done, Errored}
ReturnedError(state) == IF state = Errored THEN ErrKonnectorFailed ELSE ErrNil

\* Subscriber, deferred Close, and Watch, which may fail.
WaitStart ==
  /\ wpc = "idle"
  /\ \E watch \in {ErrNil, "watch_failed"} :
       IF watch # ErrNil
         THEN /\ wpc' = "returned"
              /\ wret' = watch
              /\ wseen' = [shape |-> "watch_failed", state |-> ""]
              /\ subOpen' = FALSE
              /\ UNCHANGED watchId
         ELSE /\ wpc' = "waiting"
              /\ subOpen' = TRUE
              /\ watchId' = job.JobID
              /\ UNCHANGED <<wret, wseen>>
  /\ UNCHANGED <<wchan, jobVars, auxVars>>

\* The hub sends the subscriber an event on the watched document.
HubPublish ==
  /\ subOpen
  /\ Len(wchan) < MaxChan
  /\ \E e \in Events : wchan' = Append(wchan, e)
  /\ UNCHANGED <<wpc, subOpen, wseen, wret, watchId, jobVars, auxVars>>

\* A receive whose return leaves the subscriber open.
WaitRecv_NoClose ==
  /\ wpc = "waiting"
  /\ wchan # <<>>
  /\ LET e == Head(wchan)
         state == EventState(e)
     IN /\ wseen' = e
        /\ wchan' = Tail(wchan)
        /\ IF Returns(state)
             THEN /\ wpc' = "returned"
                  /\ wret' = ReturnedError(state)
                  /\ UNCHANGED subOpen
             ELSE UNCHANGED <<wpc, wret, subOpen>>
  /\ UNCHANGED <<watchId, jobVars, auxVars>>

\* case e := <-sub.Channel
WaitRecv ==
  /\ wpc = "waiting"
  /\ wchan # <<>>
  /\ LET e == Head(wchan)
         state == EventState(e)
     IN /\ wseen' = e
        /\ wchan' = Tail(wchan)
        /\ IF Returns(state)
             THEN /\ wpc' = "returned"
                  /\ wret' = ReturnedError(state)
                  /\ subOpen' = FALSE
             ELSE UNCHANGED <<wpc, wret, subOpen>>
  /\ UNCHANGED <<watchId, jobVars, auxVars>>

\* A timeout that returns an error.
WaitTimeout_Error ==
  /\ wpc = "waiting"
  /\ wpc' = "returned"
  /\ wret' = "timeout"
  /\ wseen' = [shape |-> "timeout", state |-> ""]
  /\ subOpen' = FALSE
  /\ UNCHANGED <<wchan, watchId, jobVars, auxVars>>

\* case <-timeout
WaitTimeout ==
  /\ wpc = "waiting"
  /\ wpc' = "returned"
  /\ wret' = ErrNil
  /\ wseen' = [shape |-> "timeout", state |-> ""]
  /\ subOpen' = FALSE
  /\ UNCHANGED <<wchan, watchId, jobVars, auxVars>>

\* ---------------------------------------------------- the hub and the job
\* couchdb's realtime event of a write: the hub sends the written job to
\* the subscriber when it is open and watches that identity.
Notify ==
  /\ wchan' = IF subOpen /\ ret' = ErrNil /\ job'.JobID = watchId
                THEN Append(wchan, [shape |-> "Job", state |-> job'.State])
                ELSE wchan
  /\ UNCHANGED <<wpc, subOpen, wseen, wret, watchId>>

\* The methods of the job, with the event of their write.
HubCreate == Len(hist) < MaxHubCalls /\ CreateCall /\ Notify
HubAckConsumed == Len(hist) < MaxHubCalls /\ AckConsumedCall /\ Notify
HubAck == Len(hist) < MaxHubCalls /\ AckCall /\ Notify
HubNack == Len(hist) < MaxHubCalls /\ NackCall /\ Notify
HubUpdate == Len(hist) < MaxHubCalls /\ UpdateCall /\ Notify

\* The job before any call, and no call of WaitUntilDone yet.
InitJob ==
  /\ store = [p \in Prefixes |-> [exists |-> TRUE, docs |-> EmptyDocs]]
  /\ nextId = 1
  /\ now = 1
  /\ hist = <<>>
  /\ ret = ErrNil
  /\ reqs = <<>>
  /\ firstId = NoId
  /\ wpc = "idle"
  /\ subOpen = FALSE
  /\ wchan = <<>>
  /\ wseen = [shape |-> "nothing", state |-> ""]
  /\ wret = ErrNil
  /\ watchId = NoId

\* ------------------------------------------------------------ GetAllJobs
\* The elements of a set of identities, in identity order.
RECURSIVE SortedSeq(_)
SortedSeq(S) ==
  IF S = {} THEN <<>>
  ELSE LET m == CHOOSE x \in S : \A y \in S : x <= y
       IN <<m>> \o SortedSeq(S \ {m})

\* The first n elements of a sequence.
Take(q, n) == SubSeq(q, 1, IF n < Len(q) THEN n ELSE Len(q))

\* couchdb.GetAllDocs with StartKey and Limit: the documents from startkey
\* on (all of them when it is empty), in identity order, at most limit.
AllDocs(docs, startkey, limit) ==
  Take(SortedSeq({d \in docs : d >= startkey}), limit)

\* No call of GetAllJobs.
ListIdle ==
  [docs |-> {}, pc |-> "idle", startkey |-> NoId, finalJobs |-> <<>>,
   err |-> ErrNil, pages |-> 0, lastPage |-> <<>>, isNil |-> FALSE,
   always |-> {}, changes |-> 0]

\* One turn of the loop whose last lap leaves the cursor out.
PageStep_NoLastLap(l, page) ==
  IF Len(page) = 0 THEN [l EXCEPT !.pc = "done"]
  ELSE LET lastJob == page[Len(page)]
           jobs == SubSeq(page, 1, Len(page) - 1)
       IN IF Len(jobs) = 0
            THEN [l EXCEPT !.startkey = lastJob, !.pc = "done"]
            ELSE [l EXCEPT !.startkey = lastJob,
                           !.finalJobs = l.finalJobs \o jobs]

\* One turn of the loop that appends the whole page, its last job too.
PageStep_KeepCursor(l, page) ==
  IF Len(page) = 0 THEN [l EXCEPT !.pc = "done"]
  ELSE LET lastJob == page[Len(page)]
           jobs == SubSeq(page, 1, Len(page) - 1)
       IN IF Len(jobs) = 0
            THEN [l EXCEPT !.startkey = lastJob, !.pc = "done",
                           !.finalJobs = l.finalJobs \o <<lastJob>>]
            ELSE [l EXCEPT !.startkey = lastJob,
                           !.finalJobs = l.finalJobs \o page]

\* One turn of the loop of GetAllJobs on the page the store answered.
PageStep(l, page) ==
  IF Len(page) = 0 THEN [l EXCEPT !.pc = "done"]
  ELSE LET lastJob == page[Len(page)]
           jobs == SubSeq(page, 1, Len(page) - 1)
       IN IF Len(jobs) = 0
            THEN [l EXCEPT !.startkey = lastJob, !.pc = "done",
                           !.finalJobs = l.finalJobs \o <<lastJob>>]
            ELSE [l EXCEPT !.startkey = lastJob,
                           !.finalJobs = l.finalJobs \o jobs]

\* A failed request that returns the jobs collected so far with the error.
PageFailed_KeepJobs(l, e) == [l EXCEPT !.pc = "done", !.err = e]

\* A failed request: return nil, err.
PageFailed(l, e) ==
  [l EXCEPT !.pc = "done", !.finalJobs = <<>>, !.isNil = TRUE, !.err = e]

\* One request of GetAllJobs and what the loop does with its answer.
GetAllJobsPage ==
  /\ lst.pc = "loop"
  /\ \E a \in Answers :
       LET page == AllDocs(lst.docs, lst.startkey, PageLimit)
           l == [lst EXCEPT !.pages = lst.pages + 1,
                            !.lastPage = IF a = "ok" THEN page ELSE <<>>]
       IN lst' = IF a = "ok" THEN PageStep(l, page) ELSE PageFailed(l, a)
  /\ UNCHANGED notLst

\* Another client creates a job document between two requests.
StoreInsert ==
  /\ lst.pc = "loop"
  /\ lst.changes < MaxChanges
  /\ \E d \in (1..MaxConcDocs) \ lst.docs :
       lst' = [lst EXCEPT !.docs = @ \cup {d}, !.changes = @ + 1]
  /\ UNCHANGED notLst

\* Another client deletes a job document between two requests; it is no
\* longer one of the documents present during the whole call.
StoreDelete ==
  /\ lst.pc = "loop"
  /\ lst.changes < MaxChanges
  /\ \E d \in lst.docs :
       lst' = [lst EXCEPT !.docs = @ \ {d}, !.always = @ \ {d},
                          !.changes = @ + 1]
  /\ UNCHANGED notLst

\* ------------------------------------------------------------------ Clone
\* The nil slice and the nil pointer, as references.
NilRef == 0
BlobFields == {"Message", "Event", "Payload"}

\* What a reference to a byte buffer, or to a JobOptions, holds.
DerefBlob(bufs, ref) == IF ref = NilRef THEN NilBlob ELSE bufs[ref]
DerefOptions(opts, ref) == IF ref = NilRef THEN NilOptions ELSE opts[ref]

\* The job a reader sees through the struct o in the heap st.
View(st, o) ==
  [o EXCEPT !.Message = DerefBlob(st.bufs, o.Message),
            !.Event = DerefBlob(st.bufs, o.Event),
            !.Payload = DerefBlob(st.bufs, o.Payload),
            !.Options = DerefOptions(st.opts, o.Options)]

\* The job jr laid out in a heap: one buffer per blob that is not nil and
\* one JobOptions when the pointer is not nil.
Heap(jr) ==
  LET ref(v, r) == IF v = NilBlob THEN NilRef ELSE r
      o == [jr EXCEPT !.Message = ref(jr.Message, 1),
                      !.Event = ref(jr.Event, 2),
                      !.Payload = ref(jr.Payload, 3),
                      !.Options = IF jr.Options = NilOptions THEN NilRef ELSE 1]
  IN [bufs |-> <<jr.Message, jr.Event, jr.Payload>>, opts |-> <<jr.Options>>,
      j |-> o, c |-> o, at |-> jr, pc |-> "idle", last |-> "none",
      writes |-> 0]

\* if j.F != nil { tmp := j.F; j.F = make([]byte, len(tmp)); copy(j.F, tmp) }
CopyBlob(st, f) ==
  IF st.j[f] = NilRef THEN st
  ELSE [st EXCEPT !.bufs = Append(st.bufs, st.bufs[st.j[f]]),
                  !.j[f] = Len(st.bufs) + 1]

\* A clone that is the copy of the struct and nothing more.
Clone_Shallow(st) == [st EXCEPT !.c = st.j]

\* Job.Clone: cloned := *j, a new JobOptions for the clone, new buffers for
\* the receiver's Message, Event and Payload.
Clone(st) ==
  LET cloned == st.j
      s1 == IF st.j.Options # NilRef
              THEN [st EXCEPT !.opts = Append(st.opts, st.opts[st.j.Options]),
                              !.c = [cloned EXCEPT !.Options = Len(st.opts) + 1]]
              ELSE [st EXCEPT !.c = cloned]
  IN CopyBlob(CopyBlob(CopyBlob(s1, "Message"), "Event"), "Payload")

\* The bytes and option values a writer stores.
Written == {"w1", "w2"}
WrittenOptions == {[MaxExecCount |-> 7, Timeout |-> 9]}
Owners == {"j", "c"}

\* c := j.Clone()
DoClone ==
  /\ cl.pc = "start"
  /\ cl' = [Clone(cl) EXCEPT !.pc = "cloned", !.last = "clone",
                             !.at = View(cl, cl.j)]
  /\ UNCHANGED notCl

\* A write into the bytes a blob field of the job or of the clone holds.
WriteBytes ==
  /\ cl.pc = "cloned"
  /\ cl.writes < MaxWrites
  /\ \E who \in Owners, f \in BlobFields, w \in Written :
       /\ cl[who][f] # NilRef
       /\ cl' = [cl EXCEPT !.bufs[cl[who][f]] = w, !.last = who,
                           !.writes = cl.writes + 1]
  /\ UNCHANGED notCl

\* A write into the JobOptions the job or the clone points to.
WriteOptions ==
  /\ cl.pc = "cloned"
  /\ cl.writes < MaxWrites
  /\ \E who \in Owners, w \in WrittenOptions :
       /\ cl[who].Options # NilRef
       /\ cl' = [cl EXCEPT !.opts[cl[who].Options] = w, !.last = who,
                           !.writes = cl.writes + 1]
  /\ UNCHANGED notCl

\* An assignment of a new slice to a blob field of the job or of the clone.
AssignBlob ==
  /\ cl.pc = "cloned"
  /\ cl.writes < MaxWrites
  /\ \E who \in Owners, f \in BlobFields, w \in Written :
       cl' = [cl EXCEPT !.bufs = Append(cl.bufs, w),
                        ![who][f] = Len(cl.bufs) + 1, !.last = who,
                        !.writes = cl.writes + 1]
  /\ UNCHANGED notCl

\* No call of Clone.
CloneIdle == Heap(NewJob(CHOOSE t \in Tenants : t.Prefix = "",
                         CHOOSE r \in Requests : r.Message = "m1", 1))

\* ------------------------------------------------- the package functions
\* The jobs of the lists: worker type, state and queueing time; id tells
\* the elements of a list apart (they are pointers).
JobKinds ==
  [WorkerType : {"konnector"}, State : States, QueuedAt : {1, 2}]
  \cup [WorkerType : {"service"}, State : {Queued, Done}, QueuedAt : {1}]
WorkerTypes == {"konnector", "service"}
Dates == {1, 2, 3}

WithIds(kinds) ==
  [i \in 1..Len(kinds) |->
     [id |-> i, WorkerType |-> kinds[i].WorkerType, State |-> kinds[i].State,
      QueuedAt |-> kinds[i].QueuedAt]]

JobLists ==
  UNION { {WithIds(k) : k \in [1..n -> JobKinds]} : n \in 0..MaxJobs }

\* time.Time.Before
Before(t, u) == t < u

\* A filter that keeps the jobs queued at the date too.
FilterJobsBeforeDate_NotAfter(jobs, date) ==
  SelectSeq(jobs, LAMBDA x : ~Before(date, x.QueuedAt))

FilterJobsBeforeDate(jobs, date) ==
  SelectSeq(jobs, LAMBDA x : Before(x.QueuedAt, date))

\* The loop of FilterByWorkerAndState from element i on: the jobs returned
\* and the number of elements examined.
RECURSIVE FilterLoop(_, _, _, _, _, _)
FilterLoop(jobs, workerType, state, limit, i, returned) ==
  IF i > Len(jobs) THEN [out |-> returned, scanned |-> Len(jobs)]
  ELSE IF jobs[i].WorkerType = workerType /\ jobs[i].State = state
    THEN LET r == Append(returned, jobs[i]) IN
         IF Len(r) = limit THEN [out |-> r, scanned |-> i]
         ELSE FilterLoop(jobs, workerType, state, limit, i + 1, r)
  ELSE FilterLoop(jobs, workerType, state, limit, i + 1, returned)

FilterByWorkerAndState(jobs, workerType, state, limit) ==
  FilterLoop(jobs, workerType, state, limit, 1, <<>>)

defaultMaxLimits(state) == StateLimit

\* A sort that puts the last queued first.
Sorts_Descending(jobs) ==
  LET n == Len(jobs)
      perms == {f \in [1..n -> 1..n] : \A i, k \in 1..n : i # k => f[i] # f[k]}
      sorted(f) == \A i \in 1..n : \A k \in 1..n :
                     i < k => ~Before(jobs[f[i]].QueuedAt, jobs[f[k]].QueuedAt)
  IN {[i \in 1..n |-> jobs[f[i]]] : f \in {g \in perms : sorted(g)}}

\* sort.Slice by QueuedAt is not stable: every order of the list that is
\* ascending in QueuedAt is a result.
Sorts(jobs) ==
  LET n == Len(jobs)
      perms == {f \in [1..n -> 1..n] : \A i, k \in 1..n : i # k => f[i] # f[k]}
      sorted(f) == \A i \in 1..n : \A k \in 1..n :
                     i < k => ~Before(jobs[f[k]].QueuedAt, jobs[f[i]].QueuedAt)
  IN {[i \in 1..n |-> jobs[f[i]]] : f \in {g \in perms : sorted(g)}}

\* The loop of GetLastsJobs over the states, on the list as it is.
LastsOf(jobs, workerType) ==
  LET of(state) ==
        FilterByWorkerAndState(jobs, workerType, state,
                               defaultMaxLimits(state)).out
  IN of(Queued) \o of(Running) \o of(Done) \o of(Errored)

\* GetLastsJobs without the sort.
GetLastsJobs_NoSort(jobs, workerType) ==
  {[jobs |-> jobs, out |-> LastsOf(jobs, workerType)]}

\* GetLastsJobs: the list after the call (sorted in place) and the result.
GetLastsJobs(jobs, workerType) ==
  {[jobs |-> sorted, out |-> LastsOf(sorted, workerType)] :
     sorted \in Sorts(jobs)}

\* No call of a package function.
FnIdle == [op |-> "none"]

CallNewJob ==
  /\ fn = FnIdle
  /\ \E db \in Tenants, req \in Requests, t \in Now :
       fn' = [op |-> "NewJob", db |-> db, req |-> req, t |-> t,
              out |-> NewJob(db, req, t)]
  /\ UNCHANGED notFn

CallFilterJobsBeforeDate ==
  /\ fn = FnIdle
  /\ \E jobs \in JobLists, date \in Dates :
       fn' = [op |-> "FilterJobsBeforeDate", jobs |-> jobs, date |-> date,
              after |-> jobs, out |-> FilterJobsBeforeDate(jobs, date)]
  /\ UNCHANGED notFn

CallFilterByWorkerAndState ==
  /\ fn = FnIdle
  /\ \E jobs \in JobLists, w \in WorkerTypes, s \in States,
        limit \in 0..MaxJobs :
       LET r == FilterByWorkerAndState(jobs, w, s, limit) IN
       fn' = [op |-> "FilterByWorkerAndState", jobs |-> jobs,
              workerType |-> w, state |-> s, limit |-> limit,
              after |-> jobs, out |-> r.out, scanned |-> r.scanned]
  /\ UNCHANGED notFn

CallGetLastsJobs ==
  /\ fn = FnIdle
  /\ \E jobs \in JobLists, w \in WorkerTypes :
       \E r \in GetLastsJobs(jobs, w) :
         fn' = [op |-> "GetLastsJobs", jobs |-> jobs, workerType |-> w,
                after |-> r.jobs, out |-> r.out]
  /\ UNCHANGED notFn

\* ------------------------------------------------------- Message as JSON
\* Byte slices: the JSON text of a value, or bytes that are no JSON text
\* (garbage, the empty slice, the nil slice).
Text(v) == [ok |-> TRUE, v |-> v]
Garbage == [ok |-> FALSE, v |-> [k |-> "garbage"]]
EmptyBytes == [ok |-> FALSE, v |-> [k |-> "empty"]]
NilBytes == [ok |-> FALSE, v |-> [k |-> "nil"]]
\* What a string that is not base64 decodes to.
NotBase64 == [ok |-> FALSE, v |-> [k |-> "not base64"]]

\* JSON values: null, a number, strings (s is the string, dec the bytes it
\* is the base64 of), and objects with some of the fields Type, Data, x.
JNull == [k |-> "null"]
JNum == [k |-> "num"]
JEmptyObj == [k |-> "obj", f |-> [n \in {} |-> JNull]]
JStr(s, dec) == [k |-> "str", s |-> s, dec |-> dec]
JStrings ==
  { JStr("hello", NotBase64), JStr("xml", NotBase64),
    JStr("json", Garbage), JStr("", EmptyBytes), JStr("ew==", Garbage),
    JStr("MQ==", Text(JNum)), JStr("bnVsbA==", Text(JNull)),
    JStr("e30=", Text(JEmptyObj)) }
JField(name, vals) == {[n \in {} |-> JNull]} \cup {name :> v : v \in vals}
JObjects ==
  { [k |-> "obj", f |-> t @@ d @@ x] :
      t \in JField("Type", {JNum} \cup {u \in JStrings : u.s \in {"json", "xml"}}),
      d \in JField("Data", {JNull, JNum} \cup JStrings),
      x \in JField("x", {JNum}) }
JSONValues == {JNull, JNum} \cup JStrings \cup JObjects
JSONBytes == {Text(v) : v \in JSONValues} \cup {Garbage, EmptyBytes, NilBytes}

\* json.Unmarshal(data, &mm), mm a struct { Data []byte; Type string }.
DecodeEnvelope(data) ==
  LET bad == [err |-> "json", Data |-> NilBytes, Type |-> ""]
      v == data.v
  IN IF ~data.ok THEN bad
     ELSE IF v.k = "null" THEN [err |-> ErrNil, Data |-> NilBytes, Type |-> ""]
     ELSE IF v.k # "obj" THEN bad
     ELSE LET hasT == "Type" \in DOMAIN v.f
              hasD == "Data" \in DOMAIN v.f
              badT == hasT /\ v.f["Type"].k \notin {"str", "null"}
              badD == hasD /\ ( \/ v.f["Data"].k \notin {"str", "null"}
                                \/ /\ v.f["Data"].k = "str"
                                   /\ v.f["Data"].dec = NotBase64 )
          IN IF badT \/ badD THEN bad
             ELSE [err |-> ErrNil,
                   Data |-> IF hasD /\ v.f["Data"].k = "str"
                              THEN v.f["Data"].dec ELSE NilBytes,
                   Type |-> IF hasT /\ v.f["Type"].k = "str"
                              THEN v.f["Type"].s ELSE ""]

\* json.Unmarshal(data, &v), v a json.RawMessage: the text as it is.
DecodeRaw(m, data) ==
  IF data.ok THEN [err |-> ErrNil, m |-> data] ELSE [err |-> "json", m |-> m]

\* Message.UnmarshalJSON on the receiver m.
UnmarshalJSON(m, data) ==
  LET mm == DecodeEnvelope(data) IN
  IF mm.err = ErrNil /\ mm.Type = "json" THEN DecodeRaw(m, mm.Data)
  ELSE DecodeRaw(m, data)

\* NewMessage(data) and Message.MarshalJSON: json.Marshal of the value, and
\* of the message as a json.RawMessage (nil is written as null).
NewMessage(v) == [err |-> ErrNil, m |-> Text(v)]
MarshalJSON(m) ==
  IF m = NilBytes THEN [err |-> ErrNil, data |-> Text(JNull)]
  ELSE IF m.ok THEN [err |-> ErrNil, data |-> m]
  ELSE [err |-> "json", data |-> NilBytes]

CallRoundTrip ==
  /\ fn = FnIdle
  /\ \E v \in JSONValues :
       LET enc == MarshalJSON(NewMessage(v).m) IN
       fn' = [op |-> "RoundTrip", v |-> v, encoded |-> enc,
              out |-> UnmarshalJSON(NilBytes, enc.data)]
  /\ UNCHANGED notFn

CallUnmarshalJSON ==
  /\ fn = FnIdle
  /\ \E data \in JSONBytes :
       fn' = [op |-> "UnmarshalJSON", data |-> data,
              out |-> UnmarshalJSON(NilBytes, data)]
  /\ UNCHANGED notFn

\* ------------------------------------------------------------ the queries
\* The job documents of the store the queries read.
QueryKinds == [WorkerType : WorkerTypes, State : States]
StoredJob(id, t, k) ==
  [NewJob(t, CHOOSE r \in Requests : r.Message = "m1", 1)
     EXCEPT !.JobID = id, !.JobRev = 1, !.WorkerType = k.WorkerType,
            !.State = k.State]

\* A document satisfies a selector And(Equal("worker", w), Exists("state"),
\* Or(Equal("state", s) ...)).
Selects(selector, j) ==
  /\ j.WorkerType = selector.worker
  /\ "State" \in DOMAIN j
  /\ j.State \in selector.state

\* couchdb.FindDocs(db, consts.Jobs, req, &results): the documents of the
\* tenant that the selector keeps, in identity order, at most limit.
FindDocs(db, selector, limit, a) ==
  LET d == store[DBPrefix(db)]
      ids == SortedSeq({id \in DOMAIN d.docs : Selects(selector, d.docs[id])})
  IN IF a \in StoreErrors THEN [err |-> a, docs |-> <<>>]
     ELSE IF ~d.exists THEN [err |-> ErrNotFound, docs |-> <<>>]
     ELSE [err |-> ErrNil,
           docs |-> Take([i \in 1..Len(ids) |-> d.docs[ids[i]]], limit)]

\* A selector that leaves the state out.
QueuedSelector_AnyState(workerType) ==
  [worker |-> workerType, state |-> States]

\* mango.And(Equal("worker", workerType), Exists("state"),
\*           Or(Equal("state", Queued), Equal("state", Running)))
QueuedSelector(workerType) ==
  [worker |-> workerType, state |-> {Queued, Running}]

GetQueuedJobs(db, workerType, a) ==
  LET r == FindDocs(db, QueuedSelector(workerType), FindLimit, a)
  IN IF r.err # ErrNil THEN [jobs |-> <<>>, isNil |-> TRUE, err |-> r.err]
     ELSE [jobs |-> r.docs, isNil |-> FALSE, err |-> ErrNil]

CallGetQueuedJobs ==
  /\ fn = FnIdle
  /\ \E db \in Tenants, w \in WorkerTypes, a \in Answers :
       fn' = [op |-> "GetQueuedJobs", db |-> db, workerType |-> w, a |-> a,
              out |-> GetQueuedJobs(db, w, a)]
  /\ UNCHANGED notFn

CallGet ==
  /\ fn = FnIdle
  /\ \E db \in Tenants, id \in 1..nextId, a \in Answers :
       fn' = [op |-> "Get", db |-> db, jobID |-> id, a |-> a,
              out |-> Get(db, id, a)]
  /\ UNCHANGED notFn

\* ------------------------------------------------------ the download store
\* The files of the tests: their paths and the slugs of their applications.
Paths == {"/test/random/path.txt", "/archive/foo.jpg"}
Slugs == {"drive", "photos"}
\* downloadStoreTTL, in ticks of the store's clock.
downloadStoreTTL == 1

\* An index of the entries that leaves the tenant out.
DlIndex_KeyOnly(db, key) == <<"", key>>

\* Where the store keeps the entry of a tenant's key.
DlIndex(db, key) == <<DBPrefix(db), key>>

\* The store before any call.
DlEmpty ==
  [entries |-> [i \in {} |-> 0], added |-> <<>>, clock |-> 0,
   last |-> [op |-> "none"]]

\* store.AddFile(db, path, slug): a new key, valid for downloadStoreTTL.
DlAddFile ==
  /\ Len(dl.added) < MaxAdds
  /\ \E db \in Tenants, path \in Paths, slug \in Slugs :
       LET key == Len(dl.added) + 1
           e == [db |-> db, path |-> path, slug |-> slug,
                 expires |-> dl.clock + downloadStoreTTL]
       IN dl' = [dl EXCEPT !.entries = (DlIndex(db, key) :> e) @@ dl.entries,
                           !.added = Append(dl.added, e),
                           !.last = [op |-> "AddFile", db |-> db, key |-> key]]
  /\ UNCHANGED notDl

\* store.GetFile(db, key): the path and slug of a live entry of the tenant,
\* zero values otherwise; no error either way.
DlGetFile ==
  /\ \E db \in Tenants, key \in 1..Len(dl.added) :
       LET i == DlIndex(db, key)
           live == i \in DOMAIN dl.entries /\ dl.clock < dl.entries[i].expires
       IN dl' = [dl EXCEPT !.last =
                   [op |-> "GetFile", db |-> db, key |-> key, at |-> dl.clock,
                    path |-> IF live THEN dl.entries[i].path ELSE "",
                    slug |-> IF live THEN dl.entries[i].slug ELSE "",
                    err |-> ErrNil]]
  /\ UNCHANGED notDl

\* time.Sleep
DlTick ==
  /\ dl.clock < MaxClock
  /\ dl' = [dl EXCEPT !.clock = dl.clock + 1]
  /\ UNCHANGED notDl

\* ------------------------------------------------- the broker and its pools
\* config.Worker of each worker type: the number of slots and the attempts
\* of a job that has no options.
Worker(w) ==
  IF w = "konnector"
    THEN [WorkerType |-> w, Concurrency |-> 1, MaxExecCount |-> 1]
    ELSE [WorkerType |-> w, Concurrency |-> 2, MaxExecCount |-> 2]

\* A pool with one slot more than configured.
Slots_OneMore(w) == 1..(Worker(w).Concurrency + 1)

\* The execution slots of the pool of a worker type.
Slots(w) == 1..Worker(w).Concurrency

NoJob == 0
IdleSlot == [job |-> NoJob, phase |-> "idle"]

\* The broker after StartWorkers: no job, every slot idle.
PoolIdle ==
  [jobs |-> <<>>,
   queue |-> [w \in WorkerTypes |-> <<>>],
   slots |-> [w \in WorkerTypes |-> [s \in Slots(w) |-> IdleSlot]],
   closed |-> FALSE, expired |-> FALSE, pushes |-> 0,
   last |-> [op |-> "none"]]

\* The tenant and request of the calls of PushJob: a manual request and
\* a debounced one of a trigger, the latter for each tenant.
PoolInputs ==
  [db : {CHOOSE t \in Tenants : t.Prefix = ""},
   req : {r \in Requests : r.Manual \/ r.Debounced}]
  \cup [db : {CHOOSE t \in Tenants : t.Prefix # ""},
        req : {r \in Requests : r.Debounced}]

\* The attempts a job is given: its options, or the worker's configuration.
MaxExecCountOf(j) ==
  IF j.Options # NilOptions /\ j.Options.MaxExecCount > 0
    THEN j.Options.MaxExecCount
    ELSE Worker(j.WorkerType).MaxExecCount

\* Same tenant, worker type and trigger.
Equivalent(j, db, req) ==
  /\ j.Domain = DomainName(db)
  /\ j.Prefix = DBPrefix(db)
  /\ j.WorkerType = req.WorkerType
  /\ j.TriggerID = req.TriggerID

\* The jobs of the queue a request can be merged into: equivalent, pending
\* and not started.
PendingFor(p, db, req) ==
  LET q == p.queue[req.WorkerType] IN
  {q[k] : k \in {n \in 1..Len(q) :
                   /\ p.jobs[q[n]].j.State = Queued
                   /\ p.jobs[q[n]].runs = 0
                   /\ Equivalent(p.jobs[q[n]].j, db, req)}}

\* The broker's clock: the times of the jobs play no part in the pools.
PoolClock == 1

\* PushJob that queues a job for every request.
PushJob_NoDebounce(p, db, req) ==
  LET i == Len(p.jobs) + 1
      j == [NewJob(db, req, PoolClock) EXCEPT !.JobID = i, !.JobRev = 1]
  IN [p EXCEPT !.jobs = Append(@, [j |-> j, runs |-> 0, acks |-> 0,
                                   merged |-> 0]),
               !.queue[req.WorkerType] = Append(@, i),
               !.pushes = @ + 1,
               !.last = [op |-> "PushJob", id |-> i, err |-> ErrNil,
                         merged |-> FALSE]]

\* Broker.PushJob: a debounced request is merged into the pending job of
\* its tenant, worker type and trigger; any other is built by NewJob,
\* persisted and queued.
PushJob(p, db, req) ==
  LET pend == PendingFor(p, db, req) IN
  IF req.Debounced /\ pend # {}
    THEN LET i == CHOOSE k \in pend : TRUE IN
         [p EXCEPT !.jobs[i].j.Debounced = TRUE,
                   !.jobs[i].merged = @ + 1,
                   !.pushes = @ + 1,
                   !.last = [op |-> "PushJob", id |-> i, err |-> ErrNil,
                             merged |-> TRUE]]
    ELSE LET i == Len(p.jobs) + 1
             j == [NewJob(db, req, PoolClock) EXCEPT !.JobID = i, !.JobRev = 1]
         IN [p EXCEPT !.jobs = Append(@, [j |-> j, runs |-> 0, acks |-> 0,
                                          merged |-> 0]),
                      !.queue[req.WorkerType] = Append(@, i),
                      !.pushes = @ + 1,
                      !.last = [op |-> "PushJob", id |-> i, err |-> ErrNil,
                                merged |-> FALSE]]

\* A slot that reads the head of the queue and leaves it there.
Dequeue_Peek(q) == [head |-> Head(q), rest |-> q]

\* A slot takes the next job of the queue.
Dequeue(q) == [head |-> Head(q), rest |-> Tail(q)]

\* One attempt too many.
ShouldRetry_OneMore(e) == e.runs <= MaxExecCountOf(e.j)

\* The retry policy: another attempt while the attempts made are fewer than
\* MaxExecCount.
ShouldRetry(e) == e.runs < MaxExecCountOf(e.j)

\* How a handler ends: success, failure, or the timeout of the executor.
Outcomes ==
  {[ok |-> TRUE, reason |-> ""]}
  \cup [ok : {FALSE}, reason : {"x", "deadline"}]

\* The end of an attempt: Ack on success, the job queued again or Nack with
\* the reason on failure; the slot is free.
Finish(p, w, s, out) ==
  LET i == p.slots[w][s].job
      e == p.jobs[i]
      retry == ~out.ok /\ ShouldRetry(e)
      j == IF out.ok THEN AckFields(e.j, PoolClock)
           ELSE IF retry THEN e.j
           ELSE NackFields(e.j, PoolClock, out.reason)
  IN [p EXCEPT !.jobs[i].j = j,
               !.queue[w] = IF retry THEN Append(@, i) ELSE @,
               !.slots[w][s] = IdleSlot,
               !.last = [op |-> "finish", id |-> i, out |-> out,
                         retry |-> retry]]

\* Broker.PushJob, while the pools accept jobs.
Push ==
  /\ ~pool.closed
  /\ pool.pushes < MaxPush
  /\ \E in \in PoolInputs : pool' = PushJob(pool, in.db, in.req)
  /\ UNCHANGED notPool

\* A free slot pulls the next job of its type and calls AckConsumed.
SlotPull ==
  /\ ~pool.closed
  /\ \E w \in WorkerTypes : \E s \in Slots(w) :
       /\ pool.slots[w][s].phase = "idle"
       /\ pool.queue[w] # <<>>
       /\ LET d == Dequeue(pool.queue[w])
              i == d.head
          IN pool' = [pool EXCEPT
                        !.queue[w] = d.rest,
                        !.slots[w][s] = [job |-> i, phase |-> "consumed"],
                        !.jobs[i].j = AckConsumedFields(@, PoolClock),
                        !.jobs[i].acks = @ + 1,
                        !.last = [op |-> "AckConsumed", id |-> i]]
  /\ UNCHANGED notPool

\* The slot invokes the handler: an attempt starts.
SlotInvoke ==
  /\ ~pool.expired
  /\ \E w \in WorkerTypes : \E s \in Slots(w) :
       /\ pool.slots[w][s].phase = "consumed"
       /\ LET i == pool.slots[w][s].job IN
          pool' = [pool EXCEPT !.slots[w][s].phase = "handling",
                               !.jobs[i].runs = @ + 1,
                               !.last = [op |-> "handler", id |-> i]]
  /\ UNCHANGED notPool

\* The handler returns, or the executor cancels it at the timeout.
SlotFinish ==
  /\ ~pool.expired
  /\ \E w \in WorkerTypes : \E s \in Slots(w) :
       /\ pool.slots[w][s].phase = "handling"
       /\ \E out \in Outcomes : pool' = Finish(pool, w, s, out)
  /\ UNCHANGED notPool

\* Broker.ShutdownWorkers: the pools stop pulling jobs.
ShutdownWorkers ==
  /\ ~pool.closed
  /\ pool' = [pool EXCEPT !.closed = TRUE, !.last = [op |-> "shutdown"]]
  /\ UNCHANGED notPool

\* The deadline of the shutdown: the attempts in flight are abandoned.
Deadline ==
  /\ pool.closed
  /\ ~pool.expired
  /\ pool' = [pool EXCEPT !.expired = TRUE, !.last = [op |-> "deadline"]]
  /\ UNCHANGED notPool

\* ------------------------------------------------ RegisterCustomExternals
\* The most options RegisterCustomExternals is called with.
MaxOpts == 2
\* The largest maxTryCount it is called with.
MaxTryCount == 1

\* The options: one without context, one that can be fetched, one whose
\* scheme registerCustomExternal does not support.
AssetOptions ==
  { [Context |-> "", Scheme |-> "https"],
    [Context |-> "ctx", Scheme |-> "https"],
    [Context |-> "ctx", Scheme |-> "ftp"] }

\* What fetching, checking and adding an asset comes to.
LoadOutcomes == {"ok", "failed"}

\* registerCustomExternal: the error it returns, and whether the asset was
\* added to the assets filesystem.
registerCustomExternal(opt, outcome) ==
  IF opt.Context = ""
    THEN [err |-> ErrNil, added |-> FALSE]
    ELSE IF opt.Scheme \notin {"http", "https", "file"}
      THEN [err |-> "scheme", added |-> FALSE]
      ELSE IF outcome # "ok"
        THEN [err |-> "load", added |-> FALSE]
        ELSE [err |-> ErrNil, added |-> TRUE]

\* The errors of a goroutine tell the option and the try they come from;
\* this one is nil.
NilError == [kind |-> ErrNil, opt |-> 0, try |-> 0]

\* A goroutine that has not received its option: calls counts its calls of
\* registerCustomExternal, okAt is the first of them that returned nil.
Goroutine ==
  [pc |-> "recv", opt |-> 0, tryCount |-> 0, calls |-> 0, okAt |-> 0,
   err |-> NilError]

\* The test of the loop of a goroutine: another try, or the send of err.
LoopTest(g, maxTryCount) ==
  [g EXCEPT !.pc = IF g.tryCount < maxTryCount + 1 THEN "try" ELSE "send"]

\* The same, the loop going on after a success.
AfterTry_NoBreak(g, res, maxTryCount) ==
  LET e == IF res.err = ErrNil
             THEN NilError
             ELSE [kind |-> res.err, opt |-> g.opt, try |-> g.tryCount]
      h == [g EXCEPT !.err = e, !.calls = @ + 1,
                     !.okAt = IF res.err = ErrNil /\ @ = 0
                                THEN g.calls + 1 ELSE @]
  IN LoopTest([h EXCEPT !.tryCount = @ + 1], maxTryCount)

\* The goroutine after one call of registerCustomExternal: err is its
\* result; a success breaks the loop, a failure counts a try.
AfterTry(g, res, maxTryCount) ==
  LET e == IF res.err = ErrNil
             THEN NilError
             ELSE [kind |-> res.err, opt |-> g.opt, try |-> g.tryCount]
      h == [g EXCEPT !.err = e, !.calls = @ + 1,
                     !.okAt = IF res.err = ErrNil /\ @ = 0
                                THEN g.calls + 1 ELSE @]
  IN IF res.err = ErrNil
       THEN [h EXCEPT !.pc = "send"]
       ELSE LoopTest([h EXCEPT !.tryCount = @ + 1], maxTryCount)

\* multierror.Append, errm being the errors appended so far (nil is none).
MultierrorAppend(errm, err) == Append(errm, err)

\* RegisterCustomExternals is not called.
RegIdle ==
  [pc |-> "idle", opts |-> <<>>, maxTryCount |-> 0, g |-> <<>>, sent |-> 0,
   received |-> 0, errm |-> <<>>, ret |-> <<>>, added |-> {}]

\* The call: nothing to do for no options, else one goroutine an option.
RegisterCustomExternals ==
  /\ reg.pc = "called"
  /\ reg' = IF Len(reg.opts) = 0
              THEN [reg EXCEPT !.pc = "done", !.ret = <<>>]
              ELSE [reg EXCEPT !.pc = "send",
                               !.g = [i \in 1..Len(reg.opts) |-> Goroutine]]
  /\ UNCHANGED notReg

\* assetsCh <- opt, received by a goroutine; after the last one the channel
\* is closed and the results are awaited.
SendAsset ==
  /\ reg.pc = "send"
  /\ \E i \in 1..Len(reg.g) :
       /\ reg.g[i].pc = "recv"
       /\ reg' = [reg EXCEPT
            !.sent = @ + 1,
            !.g[i] = LoopTest([@ EXCEPT !.opt = reg.sent + 1],
                              reg.maxTryCount),
            !.pc = IF reg.sent + 1 = Len(reg.opts) THEN "recv" ELSE @]
  /\ UNCHANGED notReg

\* One turn of the loop of a goroutine.
Try ==
  /\ \E i \in 1..Len(reg.g), outcome \in LoadOutcomes :
       /\ reg.g[i].pc = "try"
       /\ LET res == registerCustomExternal(reg.opts[reg.g[i].opt], outcome)
          IN reg' = [reg EXCEPT
               !.g[i] = AfterTry(@, res, reg.maxTryCount),
               !.added = IF res.added THEN @ \cup {reg.g[i].opt} ELSE @]
  /\ UNCHANGED notReg

\* doneCh <- err, received by the main routine; the last one returns.
DoneRecv ==
  /\ reg.pc = "recv"
  /\ \E i \in 1..Len(reg.g) :
       /\ reg.g[i].pc = "send"
       /\ LET errm == IF reg.g[i].err # NilError
                        THEN MultierrorAppend(reg.errm, reg.g[i].err)
                        ELSE reg.errm
          IN reg' = [reg EXCEPT
               !.received = @ + 1,
               !.errm = errm,
               !.g[i].pc = "end",
               !.pc = IF reg.received + 1 = Len(reg.opts) THEN "done" ELSE @,
               !.ret = IF reg.received + 1 = Len(reg.opts) THEN errm ELSE @]
  /\ UNCHANGED notReg

\* ------------------------------------------------------------- thumbnails
\* The most thumbs opened.
MaxThumbs == 2
\* The most bytes written to a thumb.
MaxSize == 1

\* The identifiers of the images and notes, as their first four characters
\* and the rest, and the formats of the thumbnails of an image.
ThumbIds == {[dir |-> "abcd", rest |-> "1"]}
ThumbFormats == {"small"}
noteThumbFormat == "note"

\* makeName: the directory is the first four characters of the identifier.
makeName(imgID, format) ==
  [dir |-> imgID.dir, base |-> imgID.rest, ext |-> format]

\* afero.TempFile: a name of the directory with the prefix and a suffix that
\* no file has, the k-th one here.
TempName(dir, prefix, k) ==
  [dir |-> dir, base |-> prefix,
   ext |-> IF k = 1 THEN "r1" ELSE IF k = 2 THEN "r2" ELSE "r3"]

FinalNames ==
  {makeName(id, f) : id \in ThumbIds, f \in ThumbFormats \cup {noteThumbFormat}}
TempNames ==
  {TempName(id.dir, p, k) :
     id \in ThumbIds, p \in {"cozy-thumb", "note-thumb"}, k \in 1..3}
ThumbNames == FinalNames \cup TempNames

\* No file under a name; a file holds size bytes written through the thumb
\* by (0 is what was there before any thumb was opened).
NoFile == [exists |-> FALSE, size |-> 0, by |-> 0]
OldFiles == {NoFile} \cup {[exists |-> TRUE, size |-> n, by |-> 0] : n \in 0..1}

\* fs.Remove and fs.Rename on the files; both fail on a name without file.
FsRemove(files, name) ==
  IF files[name].exists
    THEN [files |-> [files EXCEPT ![name] = NoFile], err |-> ErrNil]
    ELSE [files |-> files, err |-> "notexist"]
FsRename(files, oldname, newname) ==
  IF files[oldname].exists
    THEN [files |-> [files EXCEPT ![newname] = files[oldname],
                                  ![oldname] = NoFile],
          err |-> ErrNil]
    ELSE [files |-> files, err |-> "notexist"]
\* fs.Stat, which may fail for another reason as well.
FsStat(files, name, fault) ==
  IF fault THEN [err |-> "io", size |-> 0]
  ELSE IF ~files[name].exists THEN [err |-> "notexist", size |-> 0]
  ELSE [err |-> ErrNil, size |-> files[name].size]

\* thumb.Abort and thumb.Commit.
ThumbAbort(files, t) == FsRemove(files, t.tmpname)
ThumbCommit(files, t) == FsRename(files, t.tmpname, t.newname)

\* The same as NewThumb, the file being opened under the final name.
NewThumb_InPlace(newname, prefix, k) ==
  [tmpname |-> newname, newname |-> newname]

\* The thumb of CreateThumb and CreateNoteThumb: a temporary file of the
\* directory of newname.
NewThumb(newname, prefix, k) ==
  [tmpname |-> TempName(newname.dir, prefix, k), newname |-> newname]

\* What ThumbExists returns.
ExistsResult(files, name, fault) ==
  LET s == FsStat(files, name, fault)
  IN IF s.err = "notexist" THEN [ok |-> FALSE, err |-> ErrNil]
     ELSE IF s.err # ErrNil THEN [ok |-> FALSE, err |-> s.err]
     ELSE [ok |-> s.size > 0, err |-> ErrNil]

\* The last call: none yet.
NoThumbCall ==
  [op |-> "none", h |-> 0, name |-> [dir |-> "", base |-> "", ext |-> ""],
   err |-> ErrNil, ok |-> FALSE]
\* No thumb opened, no file.
ThumbsIdle ==
  [files |-> [n \in ThumbNames |-> NoFile], thumbs |-> <<>>,
   last |-> NoThumbCall]

\* CreateThumb and CreateNoteThumb: the directory is made, the temporary
\* file created empty; either may fail, and then no thumb is returned.
OpenThumb(newname, prefix, fault, op) ==
  /\ Len(th.thumbs) < MaxThumbs
  /\ IF fault # "none"
       THEN th' = [th EXCEPT !.last = [NoThumbCall EXCEPT !.op = op,
                                                           !.err = fault]]
       ELSE LET h == Len(th.thumbs) + 1
                t == NewThumb(newname, prefix, h)
            IN th' = [th EXCEPT
                 !.files[t.tmpname] = [exists |-> TRUE, size |-> 0, by |-> h],
                 !.thumbs = Append(@, t),
                 !.last = [NoThumbCall EXCEPT !.op = op, !.h = h]]
  /\ UNCHANGED notTh

CreateThumb ==
  \E img \in ThumbIds, format \in ThumbFormats,
     fault \in {"none", "mkdir", "tempfile"} :
    OpenThumb(makeName(img, format), "cozy-thumb", fault, "CreateThumb")

CreateNoteThumb ==
  \E id \in ThumbIds, fault \in {"none", "mkdir", "tempfile"} :
    OpenThumb(makeName(id, noteThumbFormat), "note-thumb", fault,
              "CreateNoteThumb")

\* A write to the file of a thumb that is neither committed nor aborted.
ThumbWrite ==
  \E h \in 1..Len(th.thumbs) :
    LET t == th.thumbs[h]
    IN /\ th.files[t.tmpname].exists
       /\ th.files[t.tmpname].by = h
       /\ th.files[t.tmpname].size < MaxSize
       /\ th' = [th EXCEPT !.files[t.tmpname].size = @ + 1,
                           !.last = [NoThumbCall EXCEPT !.op = "Write",
                                                        !.h = h]]
       /\ UNCHANGED notTh

Abort ==
  \E h \in 1..Len(th.thumbs) :
    LET r == ThumbAbort(th.files, th.thumbs[h])
    IN /\ th' = [th EXCEPT !.files = r.files,
                           !.last = [NoThumbCall EXCEPT !.op = "Abort",
                                                        !.h = h,
                                                        !.err = r.err]]
       /\ UNCHANGED notTh

Commit ==
  \E h \in 1..Len(th.thumbs) :
    LET r == ThumbCommit(th.files, th.thumbs[h])
    IN /\ th' = [th EXCEPT !.files = r.files,
                           !.last = [NoThumbCall EXCEPT !.op = "Commit",
                                                        !.h = h,
                                                        !.err = r.err]]
       /\ UNCHANGED notTh

\* ThumbExists, on the thumbnails of images and of notes.
ThumbExists ==
  \E name \in FinalNames, fault \in BOOLEAN :
    LET r == ExistsResult(th.files, name, fault)
    IN /\ th' = [th EXCEPT !.last = [op |-> "ThumbExists", h |-> 0,
                                     name |-> name, err |-> r.err,
                                     ok |-> r.ok]]
       /\ UNCHANGED notTh

\* The other operations have not started.
InitAux ==
  /\ lst = ListIdle
  /\ cl = CloneIdle
  /\ fn = FnIdle
  /\ dl = DlEmpty
  /\ pool = PoolIdle
  /\ reg = RegIdle
  /\ th = ThumbsIdle

\* One job, on which nothing is called.
InitIdle ==
  /\ job = NewJob(CHOOSE t \in Tenants : t.Prefix = "",
                  CHOOSE r \in Requests : r.Message = "m1", 1)
  /\ InitJob

\* GetAllJobs is called on a store of any documents.
InitList ==
  /\ InitIdle
  /\ \E S \in SUBSET (1..MaxDocs) :
       lst = [ListIdle EXCEPT !.docs = S, !.pc = "loop"]
  /\ cl = CloneIdle
  /\ fn = FnIdle
  /\ dl = DlEmpty
  /\ pool = PoolIdle
  /\ reg = RegIdle
  /\ th = ThumbsIdle

\* GetAllJobs is called on a store that other clients write.
InitListConc ==
  /\ InitIdle
  /\ \E S \in SUBSET (1..MaxConcDocs) :
       lst = [ListIdle EXCEPT !.docs = S, !.always = S, !.pc = "loop"]
  /\ cl = CloneIdle
  /\ fn = FnIdle
  /\ dl = DlEmpty
  /\ pool = PoolIdle
  /\ reg = RegIdle
  /\ th = ThumbsIdle

\* Clone is called on a job built by NewJob.
InitClone ==
  /\ InitIdle
  /\ lst = ListIdle
  /\ \E in \in JobInputs :
       cl = [Heap(NewJob(in.db, in.req, 1)) EXCEPT !.pc = "start"]
  /\ fn = FnIdle
  /\ dl = DlEmpty
  /\ pool = PoolIdle
  /\ reg = RegIdle
  /\ th = ThumbsIdle

\* RegisterCustomExternals is called with any options and try count.
InitReg ==
  /\ InitIdle
  /\ lst = ListIdle
  /\ cl = CloneIdle
  /\ fn = FnIdle
  /\ dl = DlEmpty
  /\ pool = PoolIdle
  /\ \E n \in 0..MaxOpts :
       \E opts \in [1..n -> AssetOptions], m \in 0..MaxTryCount :
         reg = [RegIdle EXCEPT !.pc = "called", !.opts = opts,
                               !.maxTryCount = m]
  /\ th = ThumbsIdle

\* The thumbnails filesystem holds any files under the final names.
InitThumbs ==
  /\ InitIdle
  /\ lst = ListIdle
  /\ cl = CloneIdle
  /\ fn = FnIdle
  /\ dl = DlEmpty
  /\ pool = PoolIdle
  /\ reg = RegIdle
  /\ \E f \in [FinalNames -> OldFiles] :
       th = [ThumbsIdle EXCEPT
               !.files = [n \in ThumbNames |->
                            IF n \in FinalNames THEN f[n] ELSE NoFile]]

\* No job method has been called; a package function is.
InitFn ==
  /\ InitIdle
  /\ InitAux

\* A store of any job documents of the two tenants; no call yet.
InitQuery ==
  /\ job = NewJob(CHOOSE t \in Tenants : t.Prefix = "",
                  CHOOSE r \in Requests : r.Message = "m1", 1)
  /\ \E n \in 0..MaxStored :
       \E ks \in [1..n -> QueryKinds], ts \in [1..n -> Tenants] :
         /\ store = [p \in Prefixes |->
                      [exists |-> TRUE,
                       docs |-> [id \in {i \in 1..n : DBPrefix(ts[i]) = p}
                                   |-> StoredJob(id, ts[id], ks[id])]]]
         /\ nextId = n + 1
  /\ now = 1
  /\ hist = <<>>
  /\ ret = ErrNil
  /\ reqs = <<>>
  /\ firstId = NoId
  /\ wpc = "idle"
  /\ subOpen = FALSE
  /\ wchan = <<>>
  /\ wseen = [shape |-> "nothing", state |-> ""]
  /\ wret = ErrNil
  /\ watchId = NoId
  /\ InitAux

Init ==
  /\ \E in \in JobInputs : job = NewJob(in.db, in.req, 1)
  /\ store = [p \in Prefixes |-> [exists |-> TRUE, docs |-> EmptyDocs]]
  /\ nextId = 1
  /\ now = 1
  /\ hist = <<>>
  /\ ret = ErrNil
  /\ reqs = <<>>
  /\ firstId = NoId
  /\ wpc = "idle"
  /\ subOpen = FALSE
  /\ wchan = <<>>
  /\ wseen = [shape |-> "nothing", state |-> ""]
  /\ wret = ErrNil
  /\ watchId = NoId
  /\ InitAux

Next ==
  \/ Create
  \/ AckConsumed
  \/ Ack
  \/ Nack
  \/ Update
  \/ DeleteDB

vars == <<jobVars, waitVars, auxVars>>

\* The life of one job: its methods, and the resets of the store.
Spec == Init /\ [][Next]_vars

NextWait ==
  \/ WaitStart
  \/ HubPublish
  \/ WaitRecv
  \/ WaitTimeout

\* One call of WaitUntilDone on the job, and the events of the hub.
SpecWait == Init /\ [][NextWait]_vars

\* The same, where the timer of WaitUntilDone fires.
SpecWaitFair == SpecWait /\ WF_vars(WaitTimeout)

NextHub ==
  \/ HubCreate
  \/ HubAckConsumed
  \/ HubAck
  \/ HubNack
  \/ HubUpdate
  \/ DeleteDB
  \/ WaitStart
  \/ WaitRecv
  \/ WaitTimeout

NextList == GetAllJobsPage

\* One call of GetAllJobs on a store that does not change.
SpecList == InitList /\ [][NextList]_vars

NextClone == DoClone \/ WriteBytes \/ WriteOptions \/ AssignBlob

\* One call of Clone and the writes through the job and the clone after it.
SpecClone == InitClone /\ [][NextClone]_vars

NextFn ==
  \/ CallNewJob
  \/ CallFilterJobsBeforeDate
  \/ CallFilterByWorkerAndState
  \/ CallGetLastsJobs
  \/ CallRoundTrip
  \/ CallUnmarshalJSON

\* One call of NewJob, of a filter or of GetLastsJobs.
SpecFn == InitFn /\ [][NextFn]_vars

NextQuery == CallGetQueuedJobs \/ CallGet

\* One call of Get or of GetQueuedJobs on a store that does not change.
SpecQuery == InitQuery /\ [][NextQuery]_vars

NextDl == DlAddFile \/ DlGetFile \/ DlTick

\* The download store used by two tenants.
SpecDl == InitFn /\ [][NextDl]_vars

NextPool ==
  \/ Push
  \/ SlotPull
  \/ SlotInvoke
  \/ SlotFinish
  \/ ShutdownWorkers
  \/ Deadline

\* The broker: pushes, the slots of the pools and the shutdown.
SpecPool == InitFn /\ [][NextPool]_vars

\* The same, where a slot that can take a step takes one.
SpecPoolFair ==
  /\ SpecPool
  /\ WF_vars(SlotPull)
  /\ WF_vars(SlotInvoke)
  /\ WF_vars(SlotFinish)

NextListConc ==
  \/ GetAllJobsPage
  \/ StoreInsert
  \/ StoreDelete

\* One call of GetAllJobs, documents being created and deleted meanwhile.
SpecListConc == InitListConc /\ [][NextListConc]_vars

\* The same, where the loop of GetAllJobs goes on.
SpecListFair == SpecList /\ WF_vars(GetAllJobsPage)

NextReg ==
  \/ RegisterCustomExternals
  \/ SendAsset
  \/ Try
  \/ DoneRecv

\* One call of RegisterCustomExternals.
SpecReg == InitReg /\ [][NextReg]_vars

\* The same, where a routine that can take a step takes one.
SpecRegFair == SpecReg /\ WF_vars(NextReg)

NextThumbs ==
  \/ CreateThumb
  \/ CreateNoteThumb
  \/ ThumbWrite
  \/ Commit
  \/ Abort
  \/ ThumbExists

\* The thumbnails of one image and one note.
SpecThumbs == InitThumbs /\ [][NextThumbs]_vars

\* The job's methods and one call of WaitUntilDone on it, the hub sending
\* the subscriber the events of the job's writes.
SpecHub == Init /\ [][NextHub]_vars

\* ================================================================ claims
\* The last call made on the job, and the one before it.
NCalls == Len(hist)
LastCall == hist[NCalls]
PrevCall == hist[NCalls - 1]
Called(op) == \E i \in 1..NCalls : hist[i].op = op
\* The step is a call of one of the methods ops.
CallOf(ops) == hist' # hist /\ hist'[Len(hist')].op \in ops
\* The job's document in its tenant's collection.
Persisted(j) == store[DBPrefix(j)].docs[j.JobID]
IsPersisted(j) ==
  /\ store[DBPrefix(j)].exists
  /\ j.JobID \in DOMAIN store[DBPrefix(j)].docs

\* C1 as stated: once State is Done or Errored, no later call changes it.
C1_TerminalAbsorbing ==
  [][job.State \in Terminal => job'.State = job.State]_vars

\* C1 amended: a State that is Done or Errored is changed only by a call of
\* AckConsumed, Ack or Nack, which set Running, Done and Errored whatever
\* the current state; Update and Create leave it as it is, in memory and in
\* the record they write.
C1_TerminalKeptByUpdate ==
  [][job.State \in Terminal =>
       /\ job'.State # job.State =>
            \/ CallOf({"AckConsumed"}) /\ job'.State = Running
            \/ CallOf({"Ack"}) /\ job'.State = Done
            \/ CallOf({"Nack"}) /\ job'.State = Errored
       /\ (CallOf({"Update", "Create"}) /\ ret' = ErrNil) =>
            /\ IsPersisted(job)'
            /\ Persisted(job)'.State = job.State]_vars

\* An Update re-created a Done job.
C1_Witness ==
  /\ NCalls >= 3
  /\ hist[1].op = "Create"
  /\ firstId # NoId
  /\ PrevCall.op = "Ack"
  /\ LastCall.op = "Update"
  /\ Len(reqs) = 2
  /\ ret = ErrNil
  /\ job.State = Done

\* C2 as stated: a job becomes Done or Errored only from Running, and Running
\* only from Queued.
C2_OnlyThroughRunning ==
  [][job'.State # job.State =>
       /\ job'.State \in Terminal => job.State = Running
       /\ job'.State = Running => job.State = Queued]_vars

\* C2 amended: State never goes back to Queued, and it changes only by
\* AckConsumed (to Running), Ack (to Done) and Nack (to Errored), each from
\* any state.
C2_SetByCall ==
  [][job'.State # job.State =>
       /\ job'.State # Queued
       /\ \/ CallOf({"AckConsumed"}) /\ job'.State = Running
          \/ CallOf({"Ack"}) /\ job'.State = Done
          \/ CallOf({"Nack"}) /\ job'.State = Errored]_vars

\* Nack on a job that never ran.
C2_Witness ==
  /\ NCalls = 1
  /\ LastCall.op = "Nack"
  /\ job.State = Errored
  /\ job.StartedAt = ZeroTime

\* C3 as stated: FinishedAt is set if and only if State is Done or Errored.
C3_FinishedIffTerminal ==
  (job.FinishedAt # ZeroTime) <=> (job.State \in Terminal)

\* C3 amended: FinishedAt is set if State is Done or Errored, and it is set
\* if and only if Ack or Nack has been called.
C3_TerminalHasFinishedAt ==
  /\ job.State \in Terminal => job.FinishedAt # ZeroTime
  /\ (job.FinishedAt # ZeroTime) <=> (Called("Ack") \/ Called("Nack"))

\* A job was acknowledged.
C3_Witness ==
  /\ NCalls >= 1
  /\ LastCall.op = "Ack"
  /\ job.State = Done
  /\ job.FinishedAt # ZeroTime

\* C4: after AckConsumed then Ack, State = Done, Event and Payload are nil
\* and FinishedAt >= StartedAt >= QueuedAt.
C4_AckConsumedThenAck ==
  (NCalls >= 2 /\ PrevCall.op = "AckConsumed" /\ LastCall.op = "Ack") =>
    /\ job.State = Done
    /\ job.Event = NilBlob
    /\ job.Payload = NilBlob
    /\ job.FinishedAt >= job.StartedAt
    /\ job.StartedAt >= job.QueuedAt

\* A created job with an event ran and was acknowledged.
C4_Witness ==
  /\ hist = <<Call("Create", ""), Call("AckConsumed", ""), Call("Ack", "")>>
  /\ job.Message = "m2"
  /\ job.FinishedAt > job.StartedAt
  /\ ret = ErrNil

\* C5: after AckConsumed then Nack(x), State = Errored, Error = x, and Event
\* and Payload are nil.
C5_AckConsumedThenNack ==
  (NCalls >= 2 /\ PrevCall.op = "AckConsumed" /\ LastCall.op = "Nack") =>
    /\ job.State = Errored
    /\ job.Error = LastCall.msg
    /\ job.Event = NilBlob
    /\ job.Payload = NilBlob

\* A job with an event and a payload ran and failed with "x".
C5_Witness ==
  /\ hist = <<Call("AckConsumed", ""), Call("Nack", "x")>>
  /\ job.TriggerID = "t2"
  /\ job.Error = "x"

\* C6: no document of the store has State Done or Errored and an Event or a
\* Payload.
C6_TerminalRecordCleared ==
  \A p \in Prefixes : \A id \in DOMAIN store[p].docs :
    store[p].docs[id].State \in Terminal =>
      /\ store[p].docs[id].Event = NilBlob
      /\ store[p].docs[id].Payload = NilBlob

\* A job with an event and a payload was written as Errored by a re-creation.
C6_Witness ==
  /\ job.TriggerID = "t2"
  /\ NCalls >= 2
  /\ hist[1].op = "Create"
  /\ firstId # NoId
  /\ LastCall.op = "Nack"
  /\ Len(reqs) = 2
  /\ ret = ErrNil
  /\ IsPersisted(job)
  /\ Persisted(job).State = Errored

\* C7 as stated: once the job has been created, its JobID is the identity
\* of its first creation.
C7_JobIDNeverChanges ==
  firstId # NoId => job.JobID = firstId

\* C7 amended: once the job has been created, its JobID changes only in an
\* Update that met not-found, where it is cleared and, when the re-creation
\* succeeds, replaced by an identity the store never assigned before, and in
\* a Create that succeeds on a job so cleared.
C7_JobIDChangesOnlyOnRepair ==
  [][(firstId # NoId /\ job'.JobID # job.JobID) =>
       \/ /\ CallOf({"AckConsumed", "Ack", "Nack", "Update"})
          /\ Len(reqs') = 2
          /\ reqs'[1] = Req("update", ErrNotFound)
          /\ IF ret' = ErrNil
               THEN job'.JobID >= nextId /\ job'.JobID # NoId
               ELSE job'.JobID = NoId
       \/ /\ CallOf({"Create"})
          /\ job.JobID = NoId
          /\ ret' = ErrNil
          /\ job'.JobID >= nextId]_vars

\* The job lives under a second identity.
C7_Witness ==
  /\ firstId # NoId
  /\ job.JobID \notin {NoId, firstId}
  /\ Len(reqs) = 2

\* C8: an Update that meets not-found clears ID and Rev and creates the job;
\* the caller gets the creation's result, and the new document has a fresh
\* identity and the job's in-memory state.
C8_RepairRecreates ==
  [][(hist' # hist /\ reqs'[1].req = "update") =>
       /\ (reqs'[1].err = ErrNotFound) <=> (Len(reqs') = 2)
       /\ Len(reqs') = 2 =>
            /\ reqs'[2].req = "create"
            /\ ret' = reqs'[2].err
            /\ ret' \notin {ErrNotFound, ErrDefinedID}
            /\ IF ret' = ErrNil
                 THEN /\ job'.JobID \notin (0..(nextId - 1))
                      /\ nextId' > job'.JobID
                      /\ IsPersisted(job)'
                      /\ Persisted(job)' = job'
                      /\ [job' EXCEPT !.JobID = NoId, !.JobRev = NoRev]
                           \in { [k EXCEPT !.JobID = NoId, !.JobRev = NoRev] :
                                 k \in {job}
                                   \cup {AckConsumedFields(job, t) : t \in Now}
                                   \cup {AckFields(job, t) : t \in Now}
                                   \cup {NackFields(job, t, m) :
                                           t \in Now, m \in ErrorMessages} }
                 ELSE /\ job'.JobID = NoId
                      /\ job'.JobRev = NoRev
                      /\ store' = store]_vars

\* A running job was re-created under a new identity.
C8_Witness ==
  /\ NCalls >= 1
  /\ LastCall.op = "AckConsumed"
  /\ Len(reqs) = 2
  /\ ret = ErrNil
  /\ firstId # NoId
  /\ job.JobID # firstId
  /\ Persisted(job).State = Running

\* C9: an error of the update request other than not-found is what the call
\* returns, after that one request and with the store as it was; after
\* not-found there is one creation, whose error is what the call returns.
C9_ErrorsReturned ==
  [][(hist' # hist /\ reqs'[1].req = "update") =>
       /\ reqs'[1].err # ErrNotFound =>
            /\ Len(reqs') = 1
            /\ ret' = reqs'[1].err
            /\ ret' # ErrNil => store' = store /\ job'.JobID = job.JobID
       /\ reqs'[1].err = ErrNotFound =>
            /\ Len(reqs') = 2
            /\ reqs'[2].req = "create"
            /\ ret' = reqs'[2].err
            /\ ret' # ErrNil => store' = store]_vars

\* Ack met a store error on a created job.
C9_Witness ==
  /\ NCalls >= 2
  /\ LastCall.op = "Ack"
  /\ job.JobID # NoId
  /\ ret \in StoreErrors
  /\ reqs = <<Req("update", ret)>>

\* C10: WaitUntilDone returns nil on an event whose state is Done, an error
\* on an event whose state is Errored, and goes on waiting on any other
\* event.
C10_ReturnsOnTerminalEvent ==
  wseen \in Events =>
    LET known == wseen.shape \in JSONShapes \cup {"Job"} IN
    /\ (known /\ wseen.state = Done) => (wpc = "returned" /\ wret = ErrNil)
    /\ (known /\ wseen.state = Errored) => (wpc = "returned" /\ wret # ErrNil)
    /\ ~(known /\ wseen.state \in Terminal) => wpc = "waiting"

\* The call returned an error on an Errored event of a realtime document.
C10_Witness ==
  /\ wseen \in Events
  /\ wseen.shape = "realtime.JSONDoc"
  /\ wseen.state = Errored
  /\ wpc = "returned"
  /\ wret = ErrKonnectorFailed

\* C11: whenever the watched job has reached Done or Errored in the store,
\* before or after the call started, a waiting WaitUntilDone has an event
\* of a terminal state to receive.
C11_NoTerminalMissed ==
  (/\ wpc = "waiting"
   /\ watchId # NoId
   /\ NCalls >= 1
   /\ LastCall.op \in {"Ack", "Nack"}
   /\ ret = ErrNil
   /\ job.State \in Terminal)
    => \E i \in 1..Len(wchan) : wchan[i].state \in Terminal

\* C12: when the timeout fires WaitUntilDone returns nil, whatever the
\* state of the job.
C12_TimeoutReturnsNil ==
  wseen.shape = "timeout" => (wpc = "returned" /\ wret = ErrNil)

\* The call returned nil on the timeout and the job is not Done.
C12_Witness ==
  /\ wseen.shape = "timeout"
  /\ wpc = "returned"
  /\ wret = ErrNil
  /\ job.State = Errored
  /\ IsPersisted(job)

\* C13: on a store that does not change, GetAllJobs returns its documents,
\* each once and in identity order.
C13_AllJobsOnce ==
  (lst.pc = "done" /\ lst.err = ErrNil) => lst.finalJobs = SortedSeq(lst.docs)

\* More documents than a page, and a last page that holds only the cursor.
C13_Witness ==
  /\ lst.pc = "done"
  /\ lst.err = ErrNil
  /\ Cardinality(lst.docs) > PageLimit
  /\ Len(lst.lastPage) = 1
  /\ Len(lst.finalJobs) = Cardinality(lst.docs)

\* C14: at the call the clone equals the job; after it no write through the
\* job to Options, Message, Event or Payload, or to what they hold, is seen
\* through the clone, and none through the clone is seen through the job.
C14_CloneSharesNothing ==
  [][ /\ (cl.pc = "start" /\ cl'.pc = "cloned")
          => View(cl', cl'.c) = View(cl, cl.j)
      /\ (cl.pc = "cloned" /\ cl'.last = "j")
          => View(cl', cl'.c) = View(cl, cl.c)
      /\ (cl.pc = "cloned" /\ cl'.last = "c")
          => View(cl', cl'.j) = View(cl, cl.j) ]_vars

\* The job's Message and Options were written after Clone and the clone
\* still holds what they held at the call.
C14_Witness ==
  /\ cl.pc = "cloned"
  /\ cl.writes = 2
  /\ cl.last = "j"
  /\ cl.at.Message # NilBlob
  /\ cl.at.Options # NilOptions
  /\ View(cl, cl.j).Message # cl.at.Message
  /\ View(cl, cl.j).Options # cl.at.Options
  /\ View(cl, cl.c) = cl.at

\* C15: NewJob returns a Queued job without identity, start, end or error,
\* queued at the time of the call, with the dispatch fields of the request.
C15_NewJobFields ==
  fn.op = "NewJob" =>
    /\ fn.out.State = Queued
    /\ fn.out.StartedAt = ZeroTime
    /\ fn.out.FinishedAt = ZeroTime
    /\ fn.out.Error = ""
    /\ fn.out.JobID = NoId
    /\ fn.out.QueuedAt = fn.t
    /\ \A f \in {"WorkerType", "TriggerID", "Message", "Event", "Payload",
                  "Manual", "Debounced", "ForwardLogs", "Options"} :
         fn.out[f] = fn.req[f]

\* NewJob was called with a request that has options, an event and a
\* trigger.
C15_Witness ==
  /\ fn.op = "NewJob"
  /\ fn.req.Options # NilOptions
  /\ fn.req.Event # NilBlob
  /\ fn.req.TriggerID # ""
  /\ fn.out.QueuedAt = 2

\* The place of a state in the order of the groups of GetLastsJobs.
GroupRank(state) ==
  CASE state = Queued -> 1 [] state = Running -> 2
    [] state = Done -> 3 [] state = Errored -> 4

\* C18: GetLastsJobs returns jobs of the worker type only, at most the cap
\* for each state, the states in the order Queued, Running, Done, Errored,
\* each group ascending in QueuedAt, every job from the input and once.
C18_LastsJobs ==
  fn.op = "GetLastsJobs" =>
    LET out == fn.out
        n == Len(out)
    IN /\ \A i \in 1..n : out[i].WorkerType = fn.workerType
       /\ \A s \in States :
            Cardinality({i \in 1..n : out[i].State = s}) <= StateLimit
       /\ \A i, k \in 1..n :
            i < k => /\ GroupRank(out[i].State) <= GroupRank(out[k].State)
                     /\ out[i].State = out[k].State
                          => out[i].QueuedAt <= out[k].QueuedAt
                     /\ out[i].id # out[k].id
       /\ \A i \in 1..n : \E p \in 1..Len(fn.jobs) : fn.jobs[p] = out[i]

\* More jobs of one state than the cap, given out of order.
C18_Witness ==
  /\ fn.op = "GetLastsJobs"
  /\ Len(fn.out) = StateLimit
  /\ Len(fn.jobs) > StateLimit
  /\ \A p \in 1..Len(fn.jobs) :
       /\ fn.jobs[p].WorkerType = fn.workerType
       /\ fn.jobs[p].State = Done
  /\ fn.jobs[1].QueuedAt > fn.jobs[2].QueuedAt
  /\ fn.out[1].id = 2

\* The jobs of the list with this worker type and state.
Matching(jobs, workerType, state) ==
  SelectSeq(jobs, LAMBDA j : j.WorkerType = workerType /\ j.State = state)

\* C19: for every limit L >= 0 FilterByWorkerAndState returns the first
\* min(L, matches) matching jobs in input order, and examines no element
\* after the L-th match.
C19_AtMostLimit ==
  fn.op = "FilterByWorkerAndState" =>
    LET m == Matching(fn.jobs, fn.workerType, fn.state) IN
    /\ Len(fn.out) <= fn.limit
    /\ fn.out = Take(m, fn.limit)
    /\ fn.scanned <= (IF fn.limit = 0 THEN 0
                      ELSE IF Len(m) >= fn.limit THEN m[fn.limit].id
                      ELSE Len(fn.jobs))

\* C20: FilterJobsBeforeDate returns the jobs queued strictly before the
\* date, all of them, in input order, and leaves the list as it was.
C20_StrictlyBefore ==
  fn.op = "FilterJobsBeforeDate" =>
    LET out == fn.out
        n == Len(out)
    IN /\ \A i \in 1..n :
            /\ out[i].QueuedAt < fn.date
            /\ out[i].id \in 1..Len(fn.jobs)
            /\ fn.jobs[out[i].id] = out[i]
       /\ \A p \in 1..Len(fn.jobs) :
            fn.jobs[p].QueuedAt < fn.date => \E i \in 1..n : out[i] = fn.jobs[p]
       /\ \A i, k \in 1..n : i < k => out[i].id < out[k].id
       /\ fn.after = fn.jobs

\* A job queued at the date is left out, others are kept.
C20_Witness ==
  /\ fn.op = "FilterJobsBeforeDate"
  /\ Len(fn.jobs) = 3
  /\ fn.jobs[2].QueuedAt = fn.date
  /\ Len(fn.out) = 2
  /\ fn.out[2].id = 3

\* The tenant a job was built for, and the namespace the tenant owns.
TenantOf(j) == CHOOSE t \in Tenants : t.Domain = j.Domain
Namespace(t) == IF t.Prefix # "" THEN t.Prefix ELSE t.Domain

\* C16: every job document of the store lies in the namespace of the tenant
\* the job was built for (its prefix, or its domain when it has none), and
\* Get gives a tenant no job of another tenant.
C16_TenantScoped ==
  /\ \A p \in DOMAIN store : \A id \in DOMAIN store[p].docs :
       Namespace(TenantOf(store[p].docs[id])) = p
  /\ \A t \in Tenants : \A id \in 1..nextId :
       Get(t, id, "ok").err = ErrNil => Get(t, id, "ok").job.Domain = t.Domain

\* A job of the tenant with a prefix was re-created by Update: it is in
\* that tenant's namespace and the other tenant's Get does not find it.
C16_Witness ==
  /\ NCalls >= 2
  /\ Len(reqs) = 2
  /\ ret = ErrNil
  /\ TenantOf(job).Prefix # ""
  /\ job.JobID # firstId
  /\ Get(TenantOf(job), job.JobID, "ok").err = ErrNil
  /\ Get(TenantOf(job), job.JobID, "ok").job = job
  /\ \A t \in Tenants \ {TenantOf(job)} :
       Get(t, job.JobID, "ok").err = ErrNotFoundJob

\* C17: a lookup of key k by a tenant other than the one that added it gets
\* an empty path and slug and no error; the tenant that added it, looking
\* it up before expiry, gets the path and slug it stored.
C17_DownloadStoreIsolated ==
  dl.last.op = "GetFile" =>
    LET a == dl.added[dl.last.key] IN
    /\ dl.last.err = ErrNil
    /\ a.db # dl.last.db => (dl.last.path = "" /\ dl.last.slug = "")
    /\ (a.db = dl.last.db /\ dl.last.at < a.expires)
         => (dl.last.path = a.path /\ dl.last.slug = a.slug)

\* Another tenant looked up a key whose entry has not expired.
C17_Witness ==
  /\ dl.last.op = "GetFile"
  /\ dl.added[dl.last.key].db # dl.last.db
  /\ dl.last.at < dl.added[dl.last.key].expires
  /\ dl.last.path = ""
  /\ dl.last.slug = ""

\* C21: GetQueuedJobs returns jobs of the tenant only, of the worker type,
\* Queued or Running, at most the limit of them; after a store error it
\* returns a nil list and the error.
C21_QueuedJobs ==
  fn.op = "GetQueuedJobs" =>
    LET out == fn.out IN
    /\ fn.a \in StoreErrors => (out.isNil /\ out.err = fn.a)
    /\ fn.a \notin StoreErrors =>
         /\ out.err = ErrNil
         /\ Len(out.jobs) <= FindLimit
         /\ \A i \in 1..Len(out.jobs) :
              /\ out.jobs[i].WorkerType = fn.workerType
              /\ out.jobs[i].State \in {Queued, Running}
              /\ out.jobs[i].State \notin {Done, Errored}
              /\ out.jobs[i].Domain = fn.db.Domain
              /\ store[Namespace(fn.db)].docs[out.jobs[i].JobID] = out.jobs[i]

\* The tenant has more Queued and Running jobs of the type than the limit,
\* the other tenant has one too.
C21_Witness ==
  /\ fn.op = "GetQueuedJobs"
  /\ fn.out.err = ErrNil
  /\ Len(fn.out.jobs) = FindLimit
  /\ Cardinality(DOMAIN store[Namespace(fn.db)].docs) > FindLimit
  /\ fn.out.jobs[1].State # fn.out.jobs[2].State

\* C24: Get returns ErrNotFoundJob and no job when the tenant has no job of
\* that identity, another store error as it is and no job, and otherwise
\* the stored job and no error.
C24_GetResults ==
  fn.op = "Get" =>
    LET docs == store[Namespace(fn.db)].docs
        out == fn.out
    IN /\ fn.a \in StoreErrors => (out.err = fn.a /\ out.job = NilJob)
       /\ (fn.a \notin StoreErrors /\ fn.jobID \notin DOMAIN docs)
            => (out.err = ErrNotFoundJob /\ out.job = NilJob)
       /\ (fn.a \notin StoreErrors /\ fn.jobID \in DOMAIN docs)
            => (out.err = ErrNil /\ out.job = docs[fn.jobID])

\* Get of a job that only the other tenant has.
C24_Witness ==
  /\ fn.op = "Get"
  /\ fn.out.err = ErrNotFoundJob
  /\ \E t \in Tenants : fn.jobID \in DOMAIN store[Namespace(t)].docs

\* A legacy envelope: an object with Type "json" and base64 bytes as Data.
IsEnvelope(data) ==
  /\ data.ok
  /\ data.v.k = "obj"
  /\ "Type" \in DOMAIN data.v.f
  /\ data.v.f["Type"] = JStr("json", Garbage)
  /\ "Data" \in DOMAIN data.v.f
  /\ data.v.f["Data"].k = "str"
  /\ data.v.f["Data"].dec \in {Text(JNum), Text(JNull), Text(JEmptyObj)}

\* C22: decoding the encoding of any JSON value gives a Message equal to
\* the value, objects with fields Type and Data included; decoding a legacy
\* envelope gives what decoding its Data gives.
C22_RoundTrip ==
  /\ fn.op = "RoundTrip" =>
       (fn.out.err = ErrNil /\ fn.out.m = Text(fn.v))
  /\ (fn.op = "UnmarshalJSON" /\ IsEnvelope(fn.data)) =>
       fn.out = UnmarshalJSON(NilBytes, fn.data.v.f["Data"].dec)

\* What the claim gives for Unmarshal on a blob.
UnmarshalResult(blob) ==
  IF blob = NilBlob THEN ErrMessageNil
  ELSE IF blob \in MalformedBlobs THEN ErrMessageUnmarshal
  ELSE ErrNil

\* C23: Unmarshal gives ErrMessageNil on a nil blob, ErrMessageUnmarshal on
\* one that does not decode and nil otherwise; after Ack or Nack it gives
\* ErrMessageNil on the Event and the Payload, and on the Message what it
\* gave before.
C23_UnmarshalErrors ==
  [][ /\ MessageUnmarshal(job.Message) = UnmarshalResult(job.Message)
      /\ EventUnmarshal(job.Event) = UnmarshalResult(job.Event)
      /\ PayloadUnmarshal(job.Payload) = UnmarshalResult(job.Payload)
      /\ CallOf({"Ack", "Nack"}) =>
           /\ EventUnmarshal(job'.Event) = ErrMessageNil
           /\ PayloadUnmarshal(job'.Payload) = ErrMessageNil
           /\ MessageUnmarshal(job'.Message) = MessageUnmarshal(job.Message)
    ]_vars

\* Nack on a job that had an event and whose message does not decode.
C23_Witness ==
  /\ NCalls >= 1
  /\ LastCall.op = "Nack"
  /\ job.TriggerID = "t1"
  /\ EventUnmarshal(job.Event) = ErrMessageNil
  /\ MessageUnmarshal(job.Message) = ErrMessageUnmarshal

\* C25: in every state of the job and in every persisted record, Error is
\* non-empty only if State is Errored.
C25_ErrorOnlyIfErrored ==
  /\ job.Error # "" => job.State = Errored
  /\ IsPersisted(job) => (Persisted(job).Error # "" => Persisted(job).State = Errored)

\* C25 as amended: Error is set by Nack only, together with Errored; it is
\* non-empty in another state only when AckConsumed or Ack was called
\* after a Nack.
C25_ErrorSetByNack ==
  /\ job.Error # "" => Called("Nack")
  /\ (NCalls >= 1 /\ LastCall.op = "Nack")
       => (job.State = Errored /\ job.Error = LastCall.msg)
  /\ (job.Error # "" /\ job.State # Errored)
       => \E i, k \in 1..NCalls :
            i < k /\ hist[i].op = "Nack" /\ hist[k].op \in {"AckConsumed", "Ack"}
  /\ IsPersisted(job) =>
       /\ Persisted(job).Error # "" => Called("Nack")
       /\ (LastCall.op = "Nack" /\ ret = ErrNil)
            => (Persisted(job).State = Errored /\ Persisted(job).Error = LastCall.msg)

\* A job Nack'ed and then Ack'ed: Done in the store, with the error.
C25_Witness ==
  /\ NCalls >= 2
  /\ PrevCall.op = "Nack"
  /\ LastCall.op = "Ack"
  /\ ret = ErrNil
  /\ IsPersisted(job)
  /\ Persisted(job).State = Done
  /\ Persisted(job).Error # ""

\* The fields no method of the job writes.
FrameFields ==
  {"WorkerType", "Domain", "Prefix", "TriggerID", "Message", "Options",
   "Manual", "Debounced", "ForwardLogs", "QueuedAt"}

\* C26: AckConsumed, Ack, Nack, Update and the re-creation leave WorkerType,
\* Domain, Prefix, TriggerID, Message, Options, Manual, Debounced,
\* ForwardLogs and QueuedAt as they were, in memory and in the record.
C26_FrameKept ==
  [][ \A f \in FrameFields :
        /\ job'[f] = job[f]
        /\ IsPersisted(job)' => Persisted(job)'[f] = job[f] ]_vars

\* A job with trigger, options and flags was re-created by Ack.
C26_Witness ==
  /\ NCalls >= 2
  /\ LastCall.op = "Ack"
  /\ Len(reqs) = 2
  /\ ret = ErrNil
  /\ firstId # NoId
  /\ job.JobID # firstId
  /\ job.Options # NilOptions
  /\ job.Message # NilBlob
  /\ Persisted(job).Message = job.Message
  /\ Persisted(job).Options = job.Options

\* The jobs of the broker, where each is, and the slots in use.
PoolJobs == 1..Len(pool.jobs)
QueuePlacesIn(p, i) ==
  {<<w, k>> \in WorkerTypes \X (1..MaxPush) :
     k <= Len(p.queue[w]) /\ p.queue[w][k] = i}
QueuePlaces(i) == QueuePlacesIn(pool, i)
InQueue(i) == QueuePlaces(i) # {}
SlotsOf(i) ==
  UNION {{<<w, s>> : s \in {n \in DOMAIN pool.slots[w] :
                             pool.slots[w][n].job = i}} : w \in WorkerTypes}
Executing(w) == {s \in DOMAIN pool.slots[w] : pool.slots[w][s].job # NoJob}
FinishStep == pool' # pool /\ pool'.last.op = "finish"

\* C27: a job whose attempt fails or times out is queued again while its
\* attempts are fewer than MaxExecCount and is Nack'ed with the reason of
\* that failure otherwise; an Errored job has made exactly MaxExecCount
\* attempts, a job is in one slot at most and not in the queue meanwhile,
\* an Errored job is never touched again, and while the pools run every
\* job reaches Done or Errored.
C27_RetryPolicy ==
  /\ [](\A i \in PoolJobs :
          LET e == pool.jobs[i] IN
          /\ e.runs <= MaxExecCountOf(e.j)
          /\ e.j.State = Errored =>
               /\ e.runs = MaxExecCountOf(e.j)
               /\ ~InQueue(i)
               /\ SlotsOf(i) = {}
          /\ Cardinality(SlotsOf(i)) <= 1
          /\ SlotsOf(i) # {} => ~InQueue(i))
  /\ [][ /\ (FinishStep /\ ~pool'.last.out.ok) =>
              LET f == pool'.last.id
                  e == pool.jobs[f]
              IN IF e.runs < MaxExecCountOf(e.j)
                   THEN /\ QueuePlacesIn(pool', f) # {}
                        /\ pool'.jobs[f] = e
                        /\ pool'.last.retry
                   ELSE /\ pool'.jobs[f].j.State = Errored
                        /\ pool'.jobs[f].j.Error = pool'.last.out.reason
                        /\ QueuePlacesIn(pool', f) = {}
          /\ \A i \in PoolJobs :
               pool.jobs[i].j.State = Errored => pool'.jobs[i] = pool.jobs[i]
        ]_vars
  /\ \A i \in 1..MaxPush :
       (i \in PoolJobs) ~>
          (pool.closed \/ (i \in PoolJobs /\ pool.jobs[i].j.State \in Terminal))

\* A job with MaxExecCount = 2 is Errored by the timeout of its second
\* attempt.
C27_Witness ==
  \E i \in PoolJobs :
    /\ pool.jobs[i].j.Options.MaxExecCount = 2
    /\ pool.jobs[i].j.State = Errored
    /\ pool.jobs[i].j.Error = "deadline"
    /\ pool.jobs[i].runs = 2
    /\ pool.jobs[i].acks = 2
    /\ pool.last.op = "finish"
    /\ pool.last.id = i

\* C28: of the jobs flagged Debounced of one tenant, worker type and
\* trigger at most one is Queued, and a request merged by PushJob leaves a
\* Queued job flagged Debounced and no new job.
C28_Debounce ==
  /\ \A i, k \in PoolJobs :
       ( /\ pool.jobs[i].j.Debounced /\ pool.jobs[k].j.Debounced
         /\ pool.jobs[i].j.State = Queued /\ pool.jobs[k].j.State = Queued
         /\ pool.jobs[i].j.Domain = pool.jobs[k].j.Domain
         /\ pool.jobs[i].j.Prefix = pool.jobs[k].j.Prefix
         /\ pool.jobs[i].j.WorkerType = pool.jobs[k].j.WorkerType
         /\ pool.jobs[i].j.TriggerID = pool.jobs[k].j.TriggerID ) => i = k
  /\ (pool.last.op = "PushJob" /\ pool.last.merged) =>
       /\ pool.jobs[pool.last.id].j.Debounced
       /\ pool.jobs[pool.last.id].j.State = Queued
       /\ Len(pool.jobs) < pool.pushes

\* Two debounced requests were pushed for one tenant before any job
\* started: one job, Queued and flagged.
C28_Witness ==
  /\ pool.pushes = 2
  /\ Len(pool.jobs) = 1
  /\ pool.last.op = "PushJob"
  /\ pool.last.merged
  /\ pool.jobs[1].merged = 1
  /\ pool.jobs[1].j.Debounced
  /\ pool.jobs[1].j.State = Queued
  /\ InQueue(1)

C30_AtMostOnceDispatch ==
  /\ [](\A i \in PoolJobs :
          /\ Cardinality(SlotsOf(i)) + Cardinality(QueuePlaces(i)) <= 1
          /\ pool.jobs[i].acks =
               pool.jobs[i].runs
               + (IF \E x \in SlotsOf(i) :
                       pool.slots[x[1]][x[2]].phase = "consumed"
                    THEN 1 ELSE 0))
  /\ [][ \A i \in PoolJobs :
           pool'.jobs[i].runs # pool.jobs[i].runs =>
             /\ pool'.jobs[i].runs = pool.jobs[i].runs + 1
             /\ pool.jobs[i].acks = pool'.jobs[i].runs
             /\ pool'.jobs[i].acks = pool.jobs[i].acks
             /\ pool.jobs[i].j.State = Running ]_vars

\* After the shutdown a slot is about to start the second attempt of a
\* job: AckConsumed was called twice, the handler once.
C30_Witness ==
  \E i \in PoolJobs :
    /\ pool.closed
    /\ pool.jobs[i].acks = 2
    /\ pool.jobs[i].runs = 1
    /\ \E x \in SlotsOf(i) : pool.slots[x[1]][x[2]].phase = "consumed"

\* C31: when more jobs of a state exist than its cap, the jobs GetLastsJobs
\* returns for that state are the most recently queued: no job it leaves
\* out was queued after one it returns.
C31_MostRecent ==
  fn.op = "GetLastsJobs" =>
    \A p \in 1..Len(fn.jobs) : \A i \in 1..Len(fn.out) :
      ( /\ fn.jobs[p].WorkerType = fn.workerType
        /\ fn.jobs[p].State = fn.out[i].State
        /\ \A k \in 1..Len(fn.out) : fn.out[k].id # fn.jobs[p].id )
      => fn.jobs[p].QueuedAt <= fn.out[i].QueuedAt

\* C32: Clone writes no field of the job it is called on: after the call
\* the job's Message, Event, Payload and Options refer to the buffers and
\* options they referred to before, and every other field is as it was.
C32_CloneReadOnly ==
  [][ (cl.pc = "start" /\ cl'.pc = "cloned") => cl'.j = cl.j ]_vars

\* The page requests GetAllJobs makes on n documents that do not change.
PagesFor(n) ==
  IF n = 0 THEN 1 ELSE ((n - 1) + (PageLimit - 2)) \div (PageLimit - 1) + 1

\* C33, as stated: every page that does not end the loop advances the
\* cursor by PageLimit - 1 documents.
C33_EachPageAdvancesFull ==
  (lst.pc = "loop" /\ lst.pages > 0) =>
    Len(lst.finalJobs) = lst.pages * (PageLimit - 1)

\* C33 as amended: on a store that does not change GetAllJobs returns: it
\* makes at most one request more than there are documents, each page that
\* does not end the loop holds two documents at least and adds all but its
\* last (PageLimit - 1 when the page is full), it stops at the first page
\* that is empty or holds the cursor only, and a failed request returns a
\* nil list and the error of that request.
C33_GetAllJobsTerminates ==
  /\ [](lst.pages <= Cardinality(lst.docs) + 1)
  /\ []((lst.pc = "loop" /\ lst.pages > 0) => Len(lst.lastPage) >= 2)
  /\ [][ (lst'.pc = "loop" /\ lst'.pages = lst.pages + 1) =>
           /\ Len(lst'.lastPage) \in 2..PageLimit
           /\ Len(lst'.finalJobs) = Len(lst.finalJobs) + Len(lst'.lastPage) - 1
           /\ lst'.startkey > lst.startkey ]_vars
  /\ []((lst.pc = "done" /\ lst.err = ErrNil) =>
          /\ Len(lst.lastPage) <= 1
          /\ lst.pages = PagesFor(Cardinality(lst.docs))
          /\ ~lst.isNil)
  /\ []((lst.pc = "done" /\ lst.err # ErrNil) =>
          /\ lst.err \in StoreErrors
          /\ lst.isNil
          /\ lst.finalJobs = <<>>)
  /\ <>(lst.pc = "done")

\* The third request failed, after two pages were collected.
C33_Witness ==
  /\ lst.pc = "done"
  /\ lst.err \in StoreErrors
  /\ lst.pages = 3
  /\ lst.isNil
  /\ Cardinality(lst.docs) > 2 * (PageLimit - 1)

\* C35: a call of WaitUntilDone that waits returns; it returns on a failed
\* Watch, on an event of a Done or Errored job or on the timeout; when it
\* has returned its subscriber is closed; and it returns an error only
\* when Watch failed or the event was of an Errored job.
C35_WaitReturnsAndCloses ==
  /\ [](subOpen => wpc = "waiting")
  /\ [](wpc = "returned" =>
          /\ ~subOpen
          /\ \/ wseen.shape \in {"watch_failed", "timeout"}
             \/ wseen \in Events /\ EventState(wseen) \in Terminal
          /\ wret # ErrNil =>
               \/ wseen.shape = "watch_failed"
               \/ wseen \in Events /\ EventState(wseen) = Errored)
  /\ (wpc = "waiting") ~> (wpc = "returned")

\* The call returned the error of an Errored event, with another event
\* left in the channel.
C35_Witness ==
  /\ wpc = "returned"
  /\ wret = ErrKonnectorFailed
  /\ wseen \in Events
  /\ EventState(wseen) = Errored
  /\ ~subOpen

\* C34: while documents are created and deleted between the requests of
\* GetAllJobs, the jobs collected are in strictly increasing identity
\* order, so none is there twice, and the list returned holds every
\* document that was in the store during the whole call.
C34_ListUnderWrites ==
  /\ \A i, k \in 1..Len(lst.finalJobs) :
       i < k => lst.finalJobs[i] < lst.finalJobs[k]
  /\ (lst.pc = "done" /\ lst.err = ErrNil) =>
       \A d \in lst.always : \E i \in 1..Len(lst.finalJobs) : lst.finalJobs[i] = d

\* The cursor document was deleted before the last request, which found
\* nothing after it; documents of the whole call were returned.
C34_Witness ==
  /\ lst.pc = "done"
  /\ lst.err = ErrNil
  /\ lst.pages >= 2
  /\ lst.changes = MaxChanges
  /\ lst.lastPage = <<>>
  /\ lst.startkey \notin lst.docs
  /\ lst.always # {}
  /\ Len(lst.finalJobs) > Cardinality(lst.always)

\* What a call of AckConsumed, Ack or Nack assigns to the job.
Assigned(j, c, t) ==
  IF c.op = "AckConsumed" THEN [j EXCEPT !.StartedAt = t, !.State = Running]
  ELSE IF c.op = "Ack"
    THEN [j EXCEPT !.FinishedAt = t, !.State = Done,
                   !.Event = NilBlob, !.Payload = NilBlob]
  ELSE [j EXCEPT !.FinishedAt = t, !.State = Errored, !.Error = c.msg,
                 !.Event = NilBlob, !.Payload = NilBlob]

\* C36: when the update of AckConsumed, Ack or Nack fails with an error
\* that is not not-found, the call returns that error after this one
\* request, the store is as it was, and the job in memory holds what the
\* call assigned, with the identity and revision it had.
C36_FailedWriteNotRolledBack ==
  [][ ( /\ CallOf({"AckConsumed", "Ack", "Nack"})
        /\ reqs'[1].req = "update"
        /\ reqs'[1].err \notin {ErrNil, ErrNotFound} ) =>
      /\ Len(reqs') = 1
      /\ ret' = reqs'[1].err
      /\ store' = store
      /\ job' = Assigned(job, hist'[Len(hist')], now')
    ]_vars

\* Nack failed on a Running job: the record is Running without error, the
\* job in memory is Errored with the message.
C36_Witness ==
  /\ NCalls >= 2
  /\ LastCall.op = "Nack"
  /\ ret \in StoreErrors
  /\ Len(reqs) = 1
  /\ IsPersisted(job)
  /\ Persisted(job).State = Running
  /\ Persisted(job).Error = ""
  /\ Persisted(job).Event # NilBlob
  /\ job.State = Errored
  /\ job.Error = LastCall.msg
  /\ job.Event = NilBlob

\* C37, as stated: after GetLastsJobs the list given to it holds the same
\* jobs in the same order as before the call.
C37_InputUnchanged ==
  fn.op = "GetLastsJobs" => fn.after = fn.jobs

\* C37 as amended: after GetLastsJobs the list given to it holds the same
\* jobs as before the call, in ascending order of QueuedAt.
C37_InputSortedInPlace ==
  fn.op = "GetLastsJobs" =>
    /\ Len(fn.after) = Len(fn.jobs)
    /\ \A p \in 1..Len(fn.jobs) :
         Cardinality({i \in 1..Len(fn.after) : fn.after[i] = fn.jobs[p]}) = 1
    /\ \A i, k \in 1..Len(fn.after) :
         i < k => fn.after[i].QueuedAt <= fn.after[k].QueuedAt

\* A list given with its last queued job first comes back reordered.
C37_Witness ==
  /\ fn.op = "GetLastsJobs"
  /\ Len(fn.jobs) = 3
  /\ fn.jobs[1].QueuedAt > fn.jobs[2].QueuedAt
  /\ fn.after # fn.jobs
  /\ fn.after[3] = fn.jobs[1]

\* The goroutines that have received an option, and the one of option k.
Received == {i \in 1..Len(reg.g) : reg.g[i].pc # "recv"}
TakenBy(k) == {i \in Received : reg.g[i].opt = k}
\* The goroutines one of whose calls of registerCustomExternal returned nil.
Succeeded == {i \in Received : reg.g[i].okAt > 0}

FinalsKept == \A n \in FinalNames : th'.files[n] = th.files[n]
\* The files are the same after the step, but for those named in S.
FilesKeptBut(S) == \A n \in ThumbNames \ S : th'.files[n] = th.files[n]

\* C39: a thumb is written to a temporary file, whose name is no final name;
\* what a final name holds changes only by a Commit that succeeds, which
\* moves the temporary file of the thumb there; opening a thumb, writing to
\* it and Abort leave every final name as it was, Abort changing no file but
\* the temporary one, which it removes; ThumbExists is false for a name
\* without file and for an empty file, true for another one.
C39_TwoPhase ==
  /\ [](/\ \A h \in 1..Len(th.thumbs) : th.thumbs[h].tmpname \notin FinalNames
        /\ \A n \in FinalNames :
             th.files[n].exists /\ th.files[n].by > 0 =>
               /\ th.thumbs[th.files[n].by].newname = n
               /\ ~th.files[th.thumbs[th.files[n].by].tmpname].exists
        /\ th.last.op = "ThumbExists" =>
             th.last.ok = /\ th.last.err = ErrNil
                          /\ th.files[th.last.name].exists
                          /\ th.files[th.last.name].size > 0)
  /\ [][LET op == th'.last.op
            h == th'.last.h
            ok == th'.last.err = ErrNil
        IN /\ op # "Commit" => FinalsKept
           /\ ~FinalsKept => ok
           /\ op \in {"CreateThumb", "CreateNoteThumb"} =>
                IF ok
                  THEN /\ th'.thumbs = Append(th.thumbs, th'.thumbs[h])
                       /\ ~th.files[th'.thumbs[h].tmpname].exists
                       /\ th'.files[th'.thumbs[h].tmpname]
                            = [exists |-> TRUE, size |-> 0, by |-> h]
                       /\ FilesKeptBut({th'.thumbs[h].tmpname})
                  ELSE th'.files = th.files /\ th'.thumbs = th.thumbs
           /\ op = "Write" => FilesKeptBut({th.thumbs[h].tmpname})
           /\ op = "Abort" =>
                /\ FilesKeptBut({th.thumbs[h].tmpname})
                /\ ~th'.files[th.thumbs[h].tmpname].exists
                /\ ok = th.files[th.thumbs[h].tmpname].exists
           /\ op = "Commit" =>
                IF ok
                  THEN /\ th.files[th.thumbs[h].tmpname].exists
                       /\ th'.files[th.thumbs[h].newname]
                            = th.files[th.thumbs[h].tmpname]
                       /\ ~th'.files[th.thumbs[h].tmpname].exists
                       /\ FilesKeptBut({th.thumbs[h].tmpname,
                                        th.thumbs[h].newname})
                  ELSE th'.files = th.files
           /\ op = "ThumbExists" => th'.files = th.files]_vars

\* Two thumbs of one name, above a file that was there: the first written
\* and committed, the second aborted.
C39_Witness ==
  /\ Len(th.thumbs) = 2
  /\ th.thumbs[1].newname = th.thumbs[2].newname
  /\ th.files[th.thumbs[1].newname] = [exists |-> TRUE, size |-> 1, by |-> 1]
  /\ th.last.op = "Abort"
  /\ th.last.h = 2
  /\ th.last.err = ErrNil

====
